---- MODULE Spec2Model ----
(***************************************************************************)
(* Batch execution pipeline of the image-classification CLI:               *)
(*   CircuitBreaker / CircuitBreakerManager / RetryLogic (retry-logic.ts), *)
(*   ConcurrencyController over p-queue (progress-tracker.ts),             *)
(*   BudgetManager / CostTracker, BatchResultManager and batchCommand.     *)
(* Each component has its own specification over the shared variables; the *)
(* batch specification composes them the way batchCommand does.            *)
(***************************************************************************)
EXTENDS Integers, Sequences, FiniteSets, TLC

(***************************************************************************)
(* Bounds of the model                                                     *)
(***************************************************************************)
\* execute() calls issued to the circuit breakers in one behaviour
MaxCalls == 6
\* calls admitted by one breaker whose function has not settled yet
MaxInflight == 2
\* clock advances in one behaviour (each a short or a long step)
MaxTicks == 2
\* largest maxAttempts option passed to RetryLogic.execute
MaxAttemptsOption == 3
\* tasks handed to ConcurrencyController.execute
NumTasks == 4
\* concurrently dispatched tasks that consult the BudgetManager
NumSpenders == 3
\* submissions of the one-at-a-time budget client
MaxSubmissions == 35
\* clock steps during the one-at-a-time submissions
MaxSeqTicks == 1
\* outcome appends of a client of the result manager
MaxLedgerOps == 3
\* shutdown callbacks a client registers
MaxCallbacks == 3
\* shutdown triggers (signals, uncaught errors) in one behaviour
MaxSignals == 2
\* work items of one batch
NumItems == 2
\* outcome records already in the log file when a batch starts
MaxPrior == 2
\* writes of the session file that fail in one behaviour
MaxWriteErrors == 1
\* items of the batch whose retry pipeline is followed
NumPipeItems == 3
\* cost records a CostTracker receives around the construction of a BudgetManager
MaxStatusRecords == 3
\* concurrent callers of RateLimiter.acquire, and acquire() calls in a run
NumCallers == 2
MaxAcquires == 4
\* concurrent callers of a TwoTierCache, and cache operations in a run
NumCacheCallers == 3
MaxCacheOps == 4
\* WebSocket objects a WebSocketClient creates in a run
MaxSockets == 4

(***************************************************************************)
(* Common values                                                           *)
(***************************************************************************)
\* JavaScript `undefined` for an optional number
Undefined == -1

\* the AIProvider values the model exercises
Providers == {"gemini", "claude"}

\* x || d on an optional number: undefined and 0 are falsy
OrDefault(x, d) == IF x = Undefined \/ x = 0 THEN d ELSE x

Max2(a, b) == IF a >= b THEN a ELSE b
Min2(a, b) == IF a <= b THEN a ELSE b

VARIABLES
  now,          \* Date.now(), in milliseconds
  ticks,        \* number of clock advances so far
  breakers,     \* CircuitBreakerManager.breakers: provider -> breaker or NoBreaker
  cbInflight,   \* provider -> number of admitted calls whose fn is executing
  cbFnCalls,    \* provider -> number of times fn was invoked through the breaker
  cbRejected,   \* provider -> number of execute() calls rejected as breaker-open
  cbConsecFails,\* provider -> failing fn completions since the last successful one
  cbProbeSucc,  \* provider -> consecutive successful completions in half-open
  rlOpts,       \* RetryLogic.execute: opts = {...defaultOptions, ...options}
  rlScript,     \* what the k-th invocation of fn does (its result or its error)
  rlPc,         \* position of execute(): "call", "sleep", "returned", "threw", "idle"
  rlAttempt,    \* the loop variable `attempt`
  rlCalls,      \* number of invocations of fn so far
  rlSlept,      \* the backoff delays slept so far, in order
  rlWakeAt,     \* time at which the pending sleep() resolves
  rlResult,     \* the value returned or the error thrown by execute()
  rlLog,        \* logger entries written by execute(): <<level, attempt>>
  queues,       \* ConcurrencyController.queues: provider -> PQueue or NoQueue
  qTask,        \* task -> "new", "waiting", "running" or "done"
  qTaskProvider,\* task -> provider whose queue it was added to ("" before)
  bmLimits,     \* BudgetManager.limits
  bmStart,      \* BudgetManager.startOfDay / startOfWeek / startOfMonth
  bmAlerts,     \* BudgetManager.alerts, as <<type, level>>
  costRecords,  \* CostTracker.records, as [provider, costUsd, timestamp]
  spPc,         \* spender -> "idle", "approved", "denied" or "recorded"
  spReq,        \* spender -> [provider, cost] of its request
  bOpts,        \* BatchOptions: [resume, concurrency]
  bMain,        \* batchCommand: "init", "awaiting", "exit0" or "exit1"
  bPc,          \* item -> position of its queued task
  bAttempt,     \* item -> `attempt` of its retryLogic.execute
  bWakeAt,      \* item -> time at which its backoff sleep resolves
  ledger,       \* BatchResultManager: results, session, stream, and the two files
  progress,     \* ProgressTracker counters
  bWriteErrs,   \* number of session-file writes that have thrown
  bOutcome,     \* item -> what its retryLogic.execute settled with
  bBudgetChecks,\* item -> result of the canAfford call made for it, if any
  rm,           \* ResourceManager: isShuttingDown, shutdownCallbacks, the shutdown loop
  rmSignals     \* number of shutdown triggers the process has received

rlVars == <<rlOpts, rlScript, rlPc, rlAttempt, rlCalls, rlSlept, rlWakeAt, rlResult, rlLog>>
pqVars == <<queues, qTask, qTaskProvider>>
rmVars == <<rm, rmSignals>>
batchVars == <<bOpts, bMain, bPc, bAttempt, bWakeAt, ledger, progress, bWriteErrs,
              bOutcome, bBudgetChecks>>
bmVars == <<bmLimits, bmStart, bmAlerts, costRecords, spPc, spReq>>
cbVars == <<breakers, cbInflight, cbFnCalls, cbRejected, cbConsecFails, cbProbeSucc>>
clockVars == <<now, ticks>>

(***************************************************************************)
(* CircuitBreaker (retry-logic.ts)                                         *)
(***************************************************************************)
NoBreaker == [state |-> "none"]

\* the CircuitBreakerOptions the model passes to getBreaker
NoOptions == [failureThreshold |-> Undefined, successThreshold |-> Undefined,
              timeout |-> Undefined, resetTimeoutMs |-> Undefined]
SmallOptions == [failureThreshold |-> 2, successThreshold |-> 2,
                 timeout |-> Undefined, resetTimeoutMs |-> 2]
BreakerOptionChoices == {NoOptions, SmallOptions}

DefaultFailureThreshold == 5
DefaultSuccessThreshold == 2
DefaultTimeout == 60000
DefaultResetTimeoutMs == 60000

\* constructor(options)
NewCircuitBreaker(options) ==
  [state |-> "closed", failures |-> 0, successes |-> 0,
   lastFailureTime |-> Undefined, nextRetryTime |-> Undefined,
   options |-> [failureThreshold |-> OrDefault(options.failureThreshold, DefaultFailureThreshold),
                successThreshold |-> OrDefault(options.successThreshold, DefaultSuccessThreshold),
                timeout |-> OrDefault(options.timeout, DefaultTimeout),
                resetTimeoutMs |-> OrDefault(options.resetTimeoutMs, DefaultResetTimeoutMs)]]

\* private reset()
CB_reset(b) ==
  [b EXCEPT !.state = "closed", !.failures = 0, !.successes = 0,
            !.lastFailureTime = Undefined, !.nextRetryTime = Undefined]

\* private trip()
CB_trip(b, t) ==
  [b EXCEPT !.state = "open", !.nextRetryTime = t + b.options.resetTimeoutMs]

\* private shouldAttemptReset()
CB_shouldAttemptReset(b, t) ==
  b.nextRetryTime # Undefined /\ t >= b.nextRetryTime

CB_onSuccess_NoReset(b) ==
  LET b1 == [b EXCEPT !.successes = b.successes + 1] IN
  IF b1.state = "half-open"
    THEN b1
    ELSE [b1 EXCEPT !.failures = 0]

\* private onSuccess()
CB_onSuccess(b) ==
  LET b1 == [b EXCEPT !.successes = b.successes + 1] IN
  IF b1.state = "half-open"
    THEN IF b1.successes >= b1.options.successThreshold THEN CB_reset(b1) ELSE b1
    ELSE [b1 EXCEPT !.failures = 0]

CB_onFailure_StrictThreshold(b, t) ==
  LET b1 == [b EXCEPT !.failures = b.failures + 1, !.lastFailureTime = t, !.successes = 0] IN
  IF b1.failures > b1.options.failureThreshold THEN CB_trip(b1, t) ELSE b1

\* private onFailure()
CB_onFailure(b, t) ==
  LET b1 == [b EXCEPT !.failures = b.failures + 1, !.lastFailureTime = t, !.successes = 0] IN
  IF b1.failures >= b1.options.failureThreshold THEN CB_trip(b1, t) ELSE b1

\* execute(fn), up to the call of fn: the breaker after the admission test,
\* and whether fn is invoked (otherwise the breaker-open error is thrown)
CB_admits(b, t) == b.state # "open" \/ CB_shouldAttemptReset(b, t)
CB_enter(b, t) ==
  IF b.state = "open" /\ CB_shouldAttemptReset(b, t)
    THEN [b EXCEPT !.state = "half-open"]
    ELSE b

\* getBreaker with one breaker created for every provider at once
CBM_getBreaker_AllProviders(bs, p, options) ==
  IF bs[p] = NoBreaker THEN [q \in Providers |-> NewCircuitBreaker(options)] ELSE bs

\* CircuitBreakerManager.getBreaker(provider, options)
CBM_getBreaker(bs, p, options) ==
  IF bs[p] = NoBreaker THEN [bs EXCEPT ![p] = NewCircuitBreaker(options)] ELSE bs

TotalCalls == LET S(p) == cbFnCalls[p] + cbRejected[p]
              IN S("gemini") + S("claude")

CBInit ==
  /\ breakers = [p \in Providers |-> NoBreaker]
  /\ cbInflight = [p \in Providers |-> 0]
  /\ cbFnCalls = [p \in Providers |-> 0]
  /\ cbRejected = [p \in Providers |-> 0]
  /\ cbConsecFails = [p \in Providers |-> 0]
  /\ cbProbeSucc = [p \in Providers |-> 0]

ClockInit == now = 0 /\ ticks = 0

\* the clock advances by one of the steps in S
TickBy(S) ==
  /\ ticks < MaxTicks
  /\ \E d \in S : now' = now + d
  /\ ticks' = ticks + 1

\* breaker clock: a short step or a default reset timeout
BreakerTickSteps == {1, DefaultResetTimeoutMs}

\* getBreaker(provider, options) called by a client before any execute
CBGetBreaker(p) ==
  /\ breakers[p] = NoBreaker
  /\ \E o \in BreakerOptionChoices : breakers' = CBM_getBreaker(breakers, p, o)
  /\ UNCHANGED <<cbInflight, cbFnCalls, cbRejected, cbConsecFails, cbProbeSucc>>

\* CircuitBreakerManager.execute(provider, fn), up to `await fn()`
CBExecuteBegin(p) ==
  /\ TotalCalls < MaxCalls
  /\ cbInflight[p] < MaxInflight
  /\ LET bs == CBM_getBreaker(breakers, p, NoOptions)
         b  == bs[p]
     IN IF CB_admits(b, now)
          THEN /\ breakers' = [bs EXCEPT ![p] = CB_enter(b, now)]
               /\ cbInflight' = [cbInflight EXCEPT ![p] = @ + 1]
               /\ cbFnCalls' = [cbFnCalls EXCEPT ![p] = @ + 1]
               /\ cbProbeSucc' = [cbProbeSucc EXCEPT ![p] = IF b.state = "open" THEN 0 ELSE @]
               /\ UNCHANGED <<cbRejected, cbConsecFails>>
          ELSE /\ breakers' = bs
               /\ cbRejected' = [cbRejected EXCEPT ![p] = @ + 1]
               /\ UNCHANGED <<cbInflight, cbFnCalls, cbConsecFails, cbProbeSucc>>

\* fn resolved: onSuccess(), return result
CBFnSucceeds(p) ==
  /\ cbInflight[p] > 0
  /\ breakers' = [breakers EXCEPT ![p] = CB_onSuccess(breakers[p])]
  /\ cbInflight' = [cbInflight EXCEPT ![p] = @ - 1]
  /\ cbConsecFails' = [cbConsecFails EXCEPT ![p] = 0]
  /\ cbProbeSucc' = [cbProbeSucc EXCEPT ![p] =
                       IF breakers[p].state = "half-open" THEN @ + 1 ELSE 0]
  /\ UNCHANGED <<cbFnCalls, cbRejected>>

\* fn rejected: onFailure(), rethrow
CBFnFails(p) ==
  /\ cbInflight[p] > 0
  /\ breakers' = [breakers EXCEPT ![p] = CB_onFailure(breakers[p], now)]
  /\ cbInflight' = [cbInflight EXCEPT ![p] = @ - 1]
  /\ cbConsecFails' = [cbConsecFails EXCEPT ![p] = @ + 1]
  /\ cbProbeSucc' = [cbProbeSucc EXCEPT ![p] = 0]
  /\ UNCHANGED <<cbFnCalls, cbRejected>>


(***************************************************************************)
(* RetryLogic (retry-logic.ts)                                             *)
(***************************************************************************)
\* An Error is [code, message, attempts]: code is the optional `code`
\* property, message the words of `message`, attempts an attempt-count
\* annotation (Undefined on the errors fn throws, which carry none).
NoCode == "undefined"
ErrRateLimit  == [code |-> "rate_limit", message |-> <<"Too", "many", "requests">>, attempts |-> Undefined]
ErrTimeout    == [code |-> NoCode, message |-> <<"Request", "timeout">>, attempts |-> Undefined]
ErrAuth       == [code |-> "authentication_error", message |-> <<"Invalid", "API", "key">>, attempts |-> Undefined]
ErrValidation == [code |-> NoCode, message |-> <<"Unsupported", "image", "format">>, attempts |-> Undefined]
\* thrown by CircuitBreaker.execute in open state
ErrBreakerOpen == [code |-> NoCode, message |-> <<"Circuit", "breaker", "is", "open.", "Next", "retry", "at">>,
                   attempts |-> Undefined]
\* thrown after the loop when no attempt was made
ErrMaxRetry == [code |-> NoCode, message |-> <<"Max", "retry", "attempts", "exceeded">>, attempts |-> Undefined]

TransientErrors == {ErrRateLimit, ErrTimeout}
TerminalErrors == {ErrAuth, ErrValidation}

\* String.prototype.toUpperCase on the words the model uses
ToUpperCase(w) ==
  CASE w = "rate_limit" -> "RATE_LIMIT"
    [] w = "authentication_error" -> "AUTHENTICATION_ERROR"
    [] w = "Too" -> "TOO"
    [] w = "many" -> "MANY"
    [] w = "requests" -> "REQUESTS"
    [] w = "Request" -> "REQUEST"
    [] w = "timeout" -> "TIMEOUT"
    [] w = "Invalid" -> "INVALID"
    [] w = "key" -> "KEY"
    [] w = "Unsupported" -> "UNSUPPORTED"
    [] w = "image" -> "IMAGE"
    [] w = "format" -> "FORMAT"
    [] w = "Circuit" -> "CIRCUIT"
    [] w = "breaker" -> "BREAKER"
    [] w = "is" -> "IS"
    [] w = "open." -> "OPEN."
    [] w = "Next" -> "NEXT"
    [] w = "retry" -> "RETRY"
    [] w = "at" -> "AT"
    [] w = "Max" -> "MAX"
    [] w = "attempts" -> "ATTEMPTS"
    [] w = "exceeded" -> "EXCEEDED"
    [] OTHER -> w

\* String.prototype.includes, on a message held as its words
Includes(message, pattern) == \E i \in 1..Len(message) : message[i] = pattern

\* defaultOptions.retryableErrors
DefaultRetryableErrors == {"RATE_LIMIT", "TIMEOUT", "NETWORK_ERROR", "ECONNRESET", "ETIMEDOUT"}
DefaultMaxAttempts == 3
DefaultInitialDelayMs == 1000
DefaultMaxDelayMs == 30000
DefaultBackoffMultiplier == 2

\* { ...defaultOptions, ...options }: a key the options leave out keeps its default
Spread(x, d) == IF x = Undefined THEN d ELSE x
RL_mergeOptions(options) ==
  [maxAttempts |-> Spread(options.maxAttempts, DefaultMaxAttempts),
   initialDelayMs |-> Spread(options.initialDelayMs, DefaultInitialDelayMs),
   maxDelayMs |-> Spread(options.maxDelayMs, DefaultMaxDelayMs),
   backoffMultiplier |-> DefaultBackoffMultiplier,
   retryableErrors |-> DefaultRetryableErrors]

\* isRetryableError that also takes the word "retry" in a message for a pattern
RL_isRetryableError_RetryWord(error, retryableErrors) ==
  LET errorMessage == [i \in 1..Len(error.message) |-> ToUpperCase(error.message[i])]
      errorCode == IF error.code = NoCode THEN NoCode ELSE ToUpperCase(error.code)
  IN \/ Includes(errorMessage, "RETRY")
     \/ \E retryableError \in retryableErrors :
          LET pattern == ToUpperCase(retryableError)
          IN Includes(errorMessage, pattern) \/ errorCode = pattern

\* private isRetryableError(error, retryableErrors)
RL_isRetryableError(error, retryableErrors) ==
  LET errorMessage == [i \in 1..Len(error.message) |-> ToUpperCase(error.message[i])]
      errorCode == IF error.code = NoCode THEN NoCode ELSE ToUpperCase(error.code)
  IN \E retryableError \in retryableErrors :
       LET pattern == ToUpperCase(retryableError)
       IN Includes(errorMessage, pattern) \/ errorCode = pattern

RECURSIVE Pow(_, _)
Pow(b, e) == IF e = 0 THEN 1 ELSE b * Pow(b, e - 1)

\* private calculateDelay(attempt, options)
RL_calculateDelay(attempt, opts) ==
  Min2(opts.initialDelayMs * Pow(opts.backoffMultiplier, attempt - 1), opts.maxDelayMs)

RL_giveUp_BothRequired(isRetryable, attempt, maxAttempts) ==
  ~isRetryable /\ attempt >= maxAttempts

\* the test `!isRetryable || attempt >= opts.maxAttempts` of the catch block
RL_giveUp(isRetryable, attempt, maxAttempts) ==
  ~isRetryable \/ attempt >= maxAttempts

\* the options and functions the model passes to execute()
RetryOptionChoices ==
  [maxAttempts : {Undefined} \cup (0..MaxAttemptsOption),
   initialDelayMs : {Undefined},
   maxDelayMs : {Undefined, 1500}]
FnResults == {"catA", "catB"}
FnOutcomes == [ok : {TRUE}, value : FnResults]
              \cup [ok : {FALSE}, error : TransientErrors \cup TerminalErrors]
ScriptLen == Max2(MaxAttemptsOption, DefaultMaxAttempts)

NoResult == [kind |-> "none"]

RLIdle ==
  /\ rlOpts = RL_mergeOptions([maxAttempts |-> Undefined, initialDelayMs |-> Undefined,
                               maxDelayMs |-> Undefined])
  /\ rlScript = <<>>
  /\ rlPc = "idle"
  /\ rlAttempt = 0
  /\ rlCalls = 0
  /\ rlSlept = <<>>
  /\ rlWakeAt = Undefined
  /\ rlResult = NoResult
  /\ rlLog = <<>>

\* execute(fn, options) has been called: opts merged, attempt = 1
RLInit ==
  /\ \E o \in RetryOptionChoices : rlOpts = RL_mergeOptions(o)
  /\ rlScript \in [1..ScriptLen -> FnOutcomes]
  /\ rlPc = "call"
  /\ rlAttempt = 1
  /\ rlCalls = 0
  /\ rlSlept = <<>>
  /\ rlWakeAt = Undefined
  /\ rlResult = NoResult
  /\ rlLog = <<>>

\* loop body, try branch: fn resolved
RLCallSucceeds ==
  /\ rlPc = "call"
  /\ rlAttempt <= rlOpts.maxAttempts
  /\ rlScript[rlCalls + 1].ok
  /\ rlCalls' = rlCalls + 1
  /\ rlLog' = IF rlAttempt > 1 THEN Append(rlLog, <<"info", rlAttempt>>) ELSE rlLog
  /\ rlResult' = [kind |-> "value", value |-> rlScript[rlCalls + 1].value]
  /\ rlPc' = "returned"
  /\ UNCHANGED <<rlOpts, rlScript, rlAttempt, rlSlept, rlWakeAt>>

\* loop body, catch branch that rethrows lastError
RLCallFailsFinal ==
  /\ rlPc = "call"
  /\ rlAttempt <= rlOpts.maxAttempts
  /\ ~rlScript[rlCalls + 1].ok
  /\ LET lastError == rlScript[rlCalls + 1].error
         isRetryable == RL_isRetryableError(lastError, rlOpts.retryableErrors)
     IN /\ RL_giveUp(isRetryable, rlAttempt, rlOpts.maxAttempts)
        /\ rlResult' = [kind |-> "error", error |-> lastError]
  /\ rlCalls' = rlCalls + 1
  /\ rlLog' = Append(rlLog, <<"error", rlAttempt>>)
  /\ rlPc' = "threw"
  /\ UNCHANGED <<rlOpts, rlScript, rlAttempt, rlSlept, rlWakeAt>>

\* loop body, catch branch that sleeps before the next attempt
RLCallFailsRetry ==
  /\ rlPc = "call"
  /\ rlAttempt <= rlOpts.maxAttempts
  /\ ~rlScript[rlCalls + 1].ok
  /\ LET lastError == rlScript[rlCalls + 1].error
         isRetryable == RL_isRetryableError(lastError, rlOpts.retryableErrors)
         delay == RL_calculateDelay(rlAttempt, rlOpts)
     IN /\ ~RL_giveUp(isRetryable, rlAttempt, rlOpts.maxAttempts)
        /\ rlSlept' = Append(rlSlept, delay)
        /\ rlWakeAt' = now + delay
  /\ rlCalls' = rlCalls + 1
  /\ rlLog' = Append(rlLog, <<"warn", rlAttempt>>)
  /\ rlPc' = "sleep"
  /\ UNCHANGED <<rlOpts, rlScript, rlAttempt, rlResult>>

\* sleep(delay) resolved: attempt++ and the next iteration
RLWake ==
  /\ rlPc = "sleep"
  /\ now >= rlWakeAt
  /\ rlAttempt' = rlAttempt + 1
  /\ rlPc' = "call"
  /\ UNCHANGED <<rlOpts, rlScript, rlCalls, rlSlept, rlWakeAt, rlResult, rlLog>>

\* loop left without a return: throw lastError || new Error(...)
RLExhausted ==
  /\ rlPc = "call"
  /\ rlAttempt > rlOpts.maxAttempts
  /\ rlResult' = [kind |-> "error",
                  error |-> IF rlCalls = 0 THEN ErrMaxRetry ELSE rlScript[rlCalls].error]
  /\ rlPc' = "threw"
  /\ UNCHANGED <<rlOpts, rlScript, rlAttempt, rlCalls, rlSlept, rlWakeAt, rlLog>>

\* retry clock: the granularity of the backoff delays
RetryTickSteps == {DefaultInitialDelayMs, 2 * DefaultInitialDelayMs}

(***************************************************************************)
(* ConcurrencyController over p-queue (progress-tracker.ts)                *)
(***************************************************************************)
NoQueue == [kind |-> "none"]

\* PROVIDER_CONCURRENCY
ProviderConcurrency == [gemini |-> 10, claude |-> 5]
FallbackConcurrency == 5

\* new PQueue({concurrency, autoStart}): `pending` counts the running tasks,
\* `waiting` holds the queued ones in arrival order
NewPQueue(concurrency, autoStart) ==
  [kind |-> "pqueue", concurrency |-> concurrency, pending |-> 0,
   waiting |-> <<>>, isPaused |-> ~autoStart]

\* a queue that goes on starting tasks while paused
PQ_canStart_IgnoresPause(q) == q.pending < q.concurrency /\ Len(q.waiting) > 0

\* p-queue starts the head of the queue when it is not paused and a slot is free
PQ_canStart(q) == ~q.isPaused /\ q.pending < q.concurrency /\ Len(q.waiting) > 0
PQ_tryToStartAnother(q) ==
  IF PQ_canStart(q)
    THEN [q EXCEPT !.pending = @ + 1, !.waiting = Tail(@)]
    ELSE q
\* queue.add(task): enqueue, then try to start one
PQ_add(q, t) == PQ_tryToStartAnother([q EXCEPT !.waiting = Append(@, t)])
\* a running task settled: free its slot, then try to start one
PQ_next(q) == PQ_tryToStartAnother([q EXCEPT !.pending = @ - 1])
\* queue.pause()
PQ_pause(q) == [q EXCEPT !.isPaused = TRUE]
\* queue.start(): unpause and start tasks while slots are free
RECURSIVE PQ_processQueue(_)
PQ_processQueue(q) == IF PQ_canStart(q) THEN PQ_processQueue(PQ_tryToStartAnother(q)) ELSE q
PQ_start(q) == IF q.isPaused THEN PQ_processQueue([q EXCEPT !.isPaused = FALSE]) ELSE q

\* tasks that left the waiting list between q and q2: they are now running
SeqToSet(sq) == {sq[i] : i \in 1..Len(sq)}
PQ_started(q, q2, t) == (SeqToSet(q.waiting) \cup {t}) \ SeqToSet(q2.waiting)

CC_getQueue_AlwaysNew(qs, p, options) ==
  LET concurrency == OrDefault(options.maxConcurrent,
                               OrDefault(ProviderConcurrency[p], FallbackConcurrency))
  IN [qs EXCEPT ![p] = NewPQueue(concurrency, options.autoStart # "false")]

\* ConcurrencyController.getQueue(provider, options)
CC_getQueue(qs, p, options) ==
  IF qs[p] = NoQueue
    THEN LET concurrency == OrDefault(options.maxConcurrent,
                                      OrDefault(ProviderConcurrency[p], FallbackConcurrency))
         IN [qs EXCEPT ![p] = NewPQueue(concurrency, options.autoStart # "false")]
    ELSE qs

NoQueueOptions == [maxConcurrent |-> Undefined, autoStart |-> "undefined"]
QueueOptionChoices == [maxConcurrent : {Undefined, 1, 2}, autoStart : {"undefined"}]
Tasks == 1..NumTasks

PQIdle ==
  /\ queues = [p \in Providers |-> NoQueue]
  /\ qTask = [t \in Tasks |-> "new"]
  /\ qTaskProvider = [t \in Tasks |-> ""]

\* getQueue(provider, options) called by a client
CCGetQueue(p) ==
  /\ \E o \in QueueOptionChoices : queues' = CC_getQueue(queues, p, o)
  /\ queues' # queues
  /\ UNCHANGED <<qTask, qTaskProvider>>

\* ConcurrencyController.execute(provider, task)
CCExecute(p, t) ==
  /\ qTask[t] = "new"
  /\ LET qs == CC_getQueue(queues, p, NoQueueOptions)
         q2 == PQ_add(qs[p], t)
     IN /\ queues' = [qs EXCEPT ![p] = q2]
        /\ qTask' = [u \in Tasks |->
                       IF u \in PQ_started(qs[p], q2, t) THEN "running"
                       ELSE IF u = t THEN "waiting" ELSE qTask[u]]
  /\ qTaskProvider' = [qTaskProvider EXCEPT ![t] = p]

\* a running task settles (resolves or rejects): its slot goes to the next one
CCTaskSettles(t) ==
  /\ qTask[t] = "running"
  /\ LET p == qTaskProvider[t]
         q2 == PQ_next(queues[p])
     IN /\ queues' = [queues EXCEPT ![p] = q2]
        /\ qTask' = [u \in Tasks |->
                       IF u = t THEN "done"
                       ELSE IF u \in PQ_started(queues[p], q2, t) THEN "running"
                       ELSE qTask[u]]
  /\ UNCHANGED qTaskProvider

\* ConcurrencyController.pause(provider)
CCPause(p) ==
  /\ queues[p] # NoQueue
  /\ ~queues[p].isPaused
  /\ queues' = [queues EXCEPT ![p] = PQ_pause(@)]
  /\ UNCHANGED <<qTask, qTaskProvider>>

\* ConcurrencyController.resume(provider)
CCResume(p) ==
  /\ queues[p] # NoQueue
  /\ queues[p].isPaused
  /\ LET q2 == PQ_start(queues[p])
     IN /\ queues' = [queues EXCEPT ![p] = q2]
        /\ qTask' = [u \in Tasks |->
                       IF u \in SeqToSet(queues[p].waiting) \ SeqToSet(q2.waiting)
                         THEN "running" ELSE qTask[u]]
  /\ UNCHANGED qTaskProvider

(***************************************************************************)
(* CostTracker and BudgetManager (cost-tracker.ts, budget-manager.ts)      *)
(* Money is held in cents. Time 0 is 00:00 local time on a Sunday that is  *)
(* the first day of a month.                                               *)
(***************************************************************************)
HourMs == 3600000
DayMs == 24 * HourMs
MonthDays == 30

\* Date.getDay(): 0 is Sunday
GetDay(t) == (t \div DayMs) % 7
\* new Date(now.getFullYear(), now.getMonth(), now.getDate())
StartOfDay(t) == (t \div DayMs) * DayMs
\* d = new Date(now); d.setDate(now.getDate() - now.getDay()): time of day kept
StartOfWeek(t) == t - GetDay(t) * DayMs
\* new Date(now.getFullYear(), now.getMonth(), 1)
StartOfMonth(t) == (((t \div DayMs) \div MonthDays) * MonthDays) * DayMs

RECURSIVE SumCost(_)
\* records.reduce((sum, r) => sum + r.costUsd, 0)
SumCost(rs) == IF rs = <<>> THEN 0 ELSE rs[1].costUsd + SumCost(Tail(rs))

\* CostTracker.getRecordsByDateRange(startDate, endDate)
CT_getRecordsByDateRange(rs, startDate, endDate) ==
  SelectSeq(rs, LAMBDA r : r.timestamp >= startDate /\ r.timestamp <= endDate)

\* CostTracker.getStats().byProvider.get(provider)?.costUsd || 0
CT_providerCost(rs, p) == SumCost(SelectSeq(rs, LAMBDA r : r.provider = p))

\* CostTracker.recordCost(result)
CT_recordCost(rs, result) ==
  Append(rs, [provider |-> result.provider, costUsd |-> result.costUsd,
              timestamp |-> result.timestamp])

\* BudgetManager.getStatus(): the spent figures canAfford reads
BM_getStatus(rs, start, t) ==
  [daily |-> SumCost(CT_getRecordsByDateRange(rs, start.startOfDay, t)),
   weekly |-> SumCost(CT_getRecordsByDateRange(rs, start.startOfWeek, t)),
   monthly |-> SumCost(CT_getRecordsByDateRange(rs, start.startOfMonth, t)),
   byProvider |-> [p \in Providers |-> CT_providerCost(rs, p)]]

\* a limit that is set: `if (this.limits.x)` is false for undefined and 0
IsSet(limit) == limit # Undefined /\ limit # 0

\* canAfford denying a request that would land exactly on a ceiling
BM_denyLevel_AtCeiling(limits, status, p, estimatedCost) ==
  IF IsSet(limits.perRequestLimit) /\ estimatedCost >= limits.perRequestLimit THEN "per-request"
  ELSE IF IsSet(limits.dailyLimit) /\ status.daily + estimatedCost >= limits.dailyLimit THEN "daily"
  ELSE IF IsSet(limits.weeklyLimit) /\ status.weekly + estimatedCost >= limits.weeklyLimit THEN "weekly"
  ELSE IF IsSet(limits.monthlyLimit) /\ status.monthly + estimatedCost >= limits.monthlyLimit THEN "monthly"
  ELSE IF IsSet(limits.providerLimits[p])
          /\ status.byProvider[p] + estimatedCost >= limits.providerLimits[p] THEN "provider"
  ELSE "none"

\* first failing check of canAfford, or "none" when the request is affordable
BM_denyLevel(limits, status, p, estimatedCost) ==
  IF IsSet(limits.perRequestLimit) /\ estimatedCost > limits.perRequestLimit THEN "per-request"
  ELSE IF IsSet(limits.dailyLimit) /\ status.daily + estimatedCost > limits.dailyLimit THEN "daily"
  ELSE IF IsSet(limits.weeklyLimit) /\ status.weekly + estimatedCost > limits.weeklyLimit THEN "weekly"
  ELSE IF IsSet(limits.monthlyLimit) /\ status.monthly + estimatedCost > limits.monthlyLimit THEN "monthly"
  ELSE IF IsSet(limits.providerLimits[p])
          /\ status.byProvider[p] + estimatedCost > limits.providerLimits[p] THEN "provider"
  ELSE "none"

WarningThreshold == 80

\* private checkWarnings(status, estimatedCost): the warning alerts it adds
BM_warning(limit, spent, estimatedCost, level) ==
  IF IsSet(limit)
     /\ (spent + estimatedCost) * 100 >= WarningThreshold * limit
     /\ (spent + estimatedCost) * 100 < 100 * limit
    THEN << <<"warning", level>> >>
    ELSE <<>>
BM_checkWarnings(limits, status, estimatedCost) ==
  BM_warning(limits.dailyLimit, status.daily, estimatedCost, "daily")
  \o BM_warning(limits.weeklyLimit, status.weekly, estimatedCost, "weekly")
  \o BM_warning(limits.monthlyLimit, status.monthly, estimatedCost, "monthly")

\* BudgetManager.canAfford(provider, estimatedCost)
BM_canAfford(limits, rs, start, t, p, estimatedCost) ==
  BM_denyLevel(limits, BM_getStatus(rs, start, t), p, estimatedCost) = "none"

\* the alerts canAfford appends
BM_canAffordAlerts(limits, rs, start, t, p, estimatedCost) ==
  LET status == BM_getStatus(rs, start, t)
      level == BM_denyLevel(limits, status, p, estimatedCost)
  IN IF level = "none"
       THEN BM_checkWarnings(limits, status, estimatedCost)
       ELSE << <<"exceeded", level>> >>

\* the BudgetLimit configurations and requests the model uses
NoProviderLimits == [p \in Providers |-> Undefined]
NoLimits == [dailyLimit |-> Undefined, weeklyLimit |-> Undefined, monthlyLimit |-> Undefined,
             perRequestLimit |-> Undefined, providerLimits |-> NoProviderLimits]
LimitChoices ==
  {[NoLimits EXCEPT !.dailyLimit = 100],
   [NoLimits EXCEPT !.weeklyLimit = 100, !.perRequestLimit = 50],
   [NoLimits EXCEPT !.monthlyLimit = 100, !.providerLimits = [NoProviderLimits EXCEPT !["claude"] = 60]]}
CostChoices == {30, 60}
ConstructionTimes == {0, 10 * HourMs}
Spenders == 1..NumSpenders
NoRequest == [provider |-> "", cost |-> 0]

BMIdle ==
  /\ bmLimits = NoLimits
  /\ bmStart = [startOfDay |-> 0, startOfWeek |-> 0, startOfMonth |-> 0]
  /\ bmAlerts = <<>>
  /\ costRecords = <<>>
  /\ spPc = [t \in Spenders |-> "idle"]
  /\ spReq = [t \in Spenders |-> NoRequest]

\* new CostTracker(); new BudgetManager(limits, costTracker) at time `now`
BMInit ==
  /\ bmLimits \in LimitChoices
  /\ bmStart = [startOfDay |-> StartOfDay(now), startOfWeek |-> StartOfWeek(now),
                startOfMonth |-> StartOfMonth(now)]
  /\ bmAlerts = <<>>
  /\ costRecords = <<>>
  /\ spPc = [t \in Spenders |-> "idle"]
  /\ spReq = [t \in Spenders |-> NoRequest]

\* a dispatched task calls canAfford(provider, cost) before its request
SpenderChecks(t) ==
  /\ spPc[t] = "idle"
  /\ \E p \in Providers, c \in CostChoices :
       /\ spReq' = [spReq EXCEPT ![t] = [provider |-> p, cost |-> c]]
       /\ spPc' = [spPc EXCEPT ![t] =
                     IF BM_canAfford(bmLimits, costRecords, bmStart, now, p, c)
                       THEN "approved" ELSE "denied"]
       /\ bmAlerts' = bmAlerts \o BM_canAffordAlerts(bmLimits, costRecords, bmStart, now, p, c)
  /\ UNCHANGED <<bmLimits, bmStart, costRecords>>

\* the approved task's request completed: recordCost(result) with its cost
SpenderRecords(t) ==
  /\ spPc[t] = "approved"
  /\ costRecords' = CT_recordCost(costRecords,
                      [provider |-> spReq[t].provider, costUsd |-> spReq[t].cost,
                       timestamp |-> now])
  /\ spPc' = [spPc EXCEPT ![t] = "recorded"]
  /\ UNCHANGED <<bmLimits, bmStart, bmAlerts, spReq>>

BudgetTickSteps == {HourMs, DayMs}

\* one client submitting items one at a time against a single ceiling
SingleCeiling == 1000
SeqLimitChoices ==
  {[NoLimits EXCEPT !.dailyLimit = SingleCeiling],
   [NoLimits EXCEPT !.weeklyLimit = SingleCeiling],
   [NoLimits EXCEPT !.monthlyLimit = SingleCeiling],
   [NoLimits EXCEPT !.providerLimits = [NoProviderLimits EXCEPT !["gemini"] = SingleCeiling]]}
SeqCostChoices == {30, 250}
SeqClient == 1

\* number of "exceeded" alerts canAfford has added
RECURSIVE Exceeded(_)
Exceeded(alerts) ==
  IF alerts = <<>> THEN 0
  ELSE (IF alerts[1][1] = "exceeded" THEN 1 ELSE 0) + Exceeded(Tail(alerts))

\* canAfford calls made so far: each one was recorded or left an alert
Submissions == Len(costRecords) + Exceeded(bmAlerts)

\* new BudgetManager({one ceiling}, new CostTracker()); every item costs the same
SeqInit ==
  /\ bmLimits \in SeqLimitChoices
  /\ bmStart = [startOfDay |-> StartOfDay(now), startOfWeek |-> StartOfWeek(now),
                startOfMonth |-> StartOfMonth(now)]
  /\ bmAlerts = <<>>
  /\ costRecords = <<>>
  /\ spPc = [t \in Spenders |-> "idle"]
  /\ \E c \in SeqCostChoices :
       spReq = [t \in Spenders |->
                  IF t = SeqClient THEN [provider |-> "gemini", cost |-> c] ELSE NoRequest]

\* canAfford(provider, cost) for the next item
SeqChecks ==
  /\ spPc[SeqClient] = "idle"
  /\ Submissions < MaxSubmissions
  /\ LET p == spReq[SeqClient].provider
         c == spReq[SeqClient].cost
     IN /\ spPc' = [spPc EXCEPT ![SeqClient] =
                      IF BM_canAfford(bmLimits, costRecords, bmStart, now, p, c)
                        THEN "approved" ELSE "denied"]
        /\ bmAlerts' = bmAlerts \o BM_canAffordAlerts(bmLimits, costRecords, bmStart, now, p, c)
  /\ UNCHANGED <<bmLimits, bmStart, costRecords, spReq>>

\* the client turns to its next item
SeqNextItem ==
  /\ spPc[SeqClient] \in {"recorded", "denied"}
  /\ spPc' = [spPc EXCEPT ![SeqClient] = "idle"]
  /\ UNCHANGED <<bmLimits, bmStart, bmAlerts, costRecords, spReq>>

\* time passing between two submissions
SeqTick ==
  /\ ticks < MaxSeqTicks
  /\ \E d \in BudgetTickSteps : now' = now + d
  /\ ticks' = ticks + 1

(***************************************************************************)
(* ResourceManager (resource-manager.ts): graceful shutdown                *)
(***************************************************************************)
\* new ResourceManager(options). `awaiting` is the index of the callback the
\* shutdown loop is awaiting (0: none), `invoked` lists the callbacks called,
\* `callbackCount` is the count logged when the shutdown starts, `exitAfter`
\* is set by the error handlers that call process.exit(1) after the shutdown.
NewResourceManager ==
  [isShuttingDown |-> FALSE, monitoring |-> FALSE, shutdownCallbacks |-> <<>>,
   awaiting |-> 0, invoked |-> <<>>, callbackCount |-> Undefined,
   complete |-> FALSE, exitAfter |-> FALSE, exited |-> FALSE]

\* startMonitoring(): the interval and the signal handlers
RM_startMonitoring(r) == [r EXCEPT !.monitoring = TRUE]
\* stopMonitoring()
RM_stopMonitoring(r) == [r EXCEPT !.monitoring = FALSE]
\* onShutdown(callback)
RM_onShutdown(r, callback) == [r EXCEPT !.shutdownCallbacks = Append(@, callback)]

\* the for-of loop of initiateGracefulShutdown at index k: call callback k
\* and await it, or finish when the array has no such element
RM_runFrom(r, k) ==
  IF k <= Len(r.shutdownCallbacks)
    THEN [r EXCEPT !.awaiting = k, !.invoked = Append(@, k)]
    ELSE [r EXCEPT !.awaiting = 0, !.complete = TRUE, !.exited = r.exitAfter]

\* a shutdown that runs its callbacks on every call
RM_initiateGracefulShutdown_NoGuard(r) ==
  RM_runFrom([RM_stopMonitoring(r) EXCEPT !.isShuttingDown = TRUE,
                                           !.callbackCount = Len(r.shutdownCallbacks)], 1)

\* initiateGracefulShutdown() up to its first await
RM_initiateGracefulShutdown(r) ==
  IF r.isShuttingDown
    THEN r
    ELSE RM_runFrom([RM_stopMonitoring(r) EXCEPT !.isShuttingDown = TRUE,
                                                  !.callbackCount = Len(r.shutdownCallbacks)], 1)

\* the awaited callback settled: a rejection is caught and logged, and the
\* loop goes on either way
RM_callbackSettled(r) == RM_runFrom(r, r.awaiting + 1)

\* the 'uncaughtException' and 'unhandledRejection' handlers:
\* initiateGracefulShutdown().then(() => process.exit(1)); the promise of a
\* call made during a shutdown is already resolved
RM_onFatalError(r) ==
  IF r.isShuttingDown
    THEN [r EXCEPT !.exited = TRUE]
    ELSE RM_initiateGracefulShutdown([r EXCEPT !.exitAfter = TRUE])

\* callbacks of a client: one that resolves and one that rejects
CallbackKinds == {"resolves", "rejects"}

RMIdle ==
  /\ rm = NewResourceManager
  /\ rmSignals = 0

\* a client registers a callback
RMRegister ==
  /\ ~rm.exited
  /\ Len(rm.shutdownCallbacks) < MaxCallbacks
  /\ \E c \in CallbackKinds : rm' = RM_onShutdown(rm, c)
  /\ UNCHANGED rmSignals

\* SIGINT or SIGTERM
RMSignal ==
  /\ ~rm.exited
  /\ rmSignals < MaxSignals
  /\ rm' = RM_initiateGracefulShutdown(rm)
  /\ rmSignals' = rmSignals + 1

\* an uncaught exception or unhandled rejection
RMFatalError ==
  /\ ~rm.exited
  /\ rmSignals < MaxSignals
  /\ rm' = RM_onFatalError(rm)
  /\ rmSignals' = rmSignals + 1

\* the awaited callback resolves
RMCallbackResolves ==
  /\ ~rm.exited
  /\ rm.awaiting > 0
  /\ rm.shutdownCallbacks[rm.awaiting] = "resolves"
  /\ rm' = RM_callbackSettled(rm)
  /\ UNCHANGED rmSignals

\* the awaited callback rejects
RMCallbackRejects ==
  /\ ~rm.exited
  /\ rm.awaiting > 0
  /\ rm.shutdownCallbacks[rm.awaiting] = "rejects"
  /\ rm' = RM_callbackSettled(rm)
  /\ UNCHANGED rmSignals

(***************************************************************************)
(* BatchInput ids, BatchResultManager, ProgressTracker                     *)
(***************************************************************************)
Items == 1..NumItems

\* BatchInput.generateId(imagePath): `${pathHash}-${timestamp}-${random}`.
\* The model's paths differ in their first bytes, so pathHash is the path;
\* timestamp and random are held as one stamp, which differs from one load
\* of the input to the next.
GenerateId(imagePath, stamp) == <<imagePath, stamp>>
PriorStamp == 0
RunStamp == 1
Ids == {GenerateId(i, st) : i \in Items, st \in {PriorStamp, RunStamp}}

\* batchResult.items of this run: deduplicated paths, one fresh id each
BatchItems == [i \in Items |-> [id |-> GenerateId(i, RunStamp), imagePath |-> i]]

NoFile == [kind |-> "missing"]
NewSession ==
  [totalItems |-> 0, completedItems |-> 0, successfulItems |-> 0,
   failedItems |-> 0, skippedItems |-> 0, ended |-> FALSE]

\* new BatchResultManager(outputPath); the files are what an earlier run left
NewLedger(logFile, sessionFile) ==
  [results |-> [id \in Ids |-> "absent"], session |-> NewSession, stream |-> "none",
   logFile |-> logFile, sessionFile |-> sessionFile]

\* private saveSession(): writeFileSync of the session, which throws when
\* the write fails
BRM_saveSession(L, fails) == IF fails THEN L ELSE [L EXCEPT !.sessionFile = L.session]

\* private writeToStream(item): a line is appended while the stream is open
BRM_writeToStream(L, item) ==
  IF L.stream = "open" THEN [L EXCEPT !.logFile = Append(@, item)] ELSE L

\* initialize(totalItems)
BRM_initialize(L, totalItems, fails) ==
  BRM_saveSession([L EXCEPT !.session.totalItems = totalItems, !.stream = "open"], fails)

\* saveSuccess(id, imagePath, result)
BRM_saveSuccess(L, id, fails) ==
  LET item == [id |-> id, status |-> "success", attempts |-> 1]
      L1 == [L EXCEPT !.results[id] = "success",
                      !.session.successfulItems = @ + 1,
                      !.session.completedItems = @ + 1]
  IN BRM_saveSession(BRM_writeToStream(L1, item), fails)

\* saveFailure(id, imagePath, error, attempts = 1)
BRM_saveFailure(L, id, attempts, fails) ==
  LET item == [id |-> id, status |-> "failed", attempts |-> attempts]
      L1 == [L EXCEPT !.results[id] = "failed",
                      !.session.failedItems = @ + 1,
                      !.session.completedItems = @ + 1]
  IN BRM_saveSession(BRM_writeToStream(L1, item), fails)

\* saveSkipped(id, imagePath, reason)
BRM_saveSkipped(L, id, fails) ==
  LET item == [id |-> id, status |-> "skipped", attempts |-> 0]
      L1 == [L EXCEPT !.results[id] = "skipped",
                      !.session.skippedItems = @ + 1,
                      !.session.completedItems = @ + 1]
  IN BRM_saveSession(BRM_writeToStream(L1, item), fails)

\* finalize()
BRM_finalize(L, fails) ==
  BRM_saveSession([L EXCEPT !.session.ended = TRUE,
                            !.stream = IF @ = "none" THEN "none" ELSE "ended"], fails)

\* getUnprocessedItems(allItems)
BRM_getUnprocessedItems(L, allItems) ==
  SelectSeq(allItems, LAMBDA item : L.results[item.id] = "absent")

\* static loadResults(outputPath): the last record of each id in the file
BRM_loadResults(logFile) ==
  [id \in Ids |->
     LET idx == {k \in 1..Len(logFile) : logFile[k].id = id}
     IN IF idx = {} THEN "absent"
        ELSE logFile[CHOOSE k \in idx : \A j \in idx : j <= k].status]

\* ProgressTracker
NewProgress == [total |-> 0, completed |-> 0, successful |-> 0, failed |-> 0,
                skipped |-> 0, stopped |-> FALSE]
PT_initialize(P, total) == [NewProgress EXCEPT !.total = total]
PT_incrementSuccess(P) == [P EXCEPT !.successful = @ + 1, !.completed = @ + 1]
PT_incrementFailure(P) == [P EXCEPT !.failed = @ + 1, !.completed = @ + 1]
PT_stop(P) == [P EXCEPT !.stopped = TRUE]

\* a client calling the result manager's operations in any order
LedgerStateInit ==
  /\ bOpts = [resume |-> FALSE, concurrency |-> Undefined]
  /\ bMain = "idle"
  /\ bPc = [i \in Items |-> "new"]
  /\ bAttempt = [i \in Items |-> 0]
  /\ bWakeAt = [i \in Items |-> Undefined]
  /\ \E k \in 0..MaxPrior :
       ledger = NewLedger([j \in 1..k |-> [id |-> GenerateId(j, PriorStamp), status |-> "success",
                                           attempts |-> 1]],
                          IF k = 0 THEN NoFile
                          ELSE [NewSession EXCEPT !.totalItems = NumItems, !.completedItems = k,
                                                  !.successfulItems = k])
  /\ progress = NewProgress
  /\ bWriteErrs = 0
  /\ bOutcome = [i \in Items |-> "none"]
  /\ bBudgetChecks = [i \in Items |-> "none"]

\* whether the session-file write of the call fails
LedgerWriteOutcomes == IF bWriteErrs < MaxWriteErrors THEN {FALSE, TRUE} ELSE {FALSE}

LedgerInitialize ==
  /\ ledger.stream = "none"
  /\ \E fails \in LedgerWriteOutcomes :
       /\ ledger' = BRM_initialize(ledger, NumItems, fails)
       /\ bWriteErrs' = bWriteErrs + (IF fails THEN 1 ELSE 0)

LedgerSaveSuccess(id) ==
  /\ ledger.session.completedItems < MaxLedgerOps
  /\ \E fails \in LedgerWriteOutcomes :
       /\ ledger' = BRM_saveSuccess(ledger, id, fails)
       /\ bWriteErrs' = bWriteErrs + (IF fails THEN 1 ELSE 0)

LedgerSaveFailure(id) ==
  /\ ledger.session.completedItems < MaxLedgerOps
  /\ \E fails \in LedgerWriteOutcomes :
       /\ ledger' = BRM_saveFailure(ledger, id, 1, fails)
       /\ bWriteErrs' = bWriteErrs + (IF fails THEN 1 ELSE 0)

LedgerSaveSkipped(id) ==
  /\ ledger.session.completedItems < MaxLedgerOps
  /\ \E fails \in LedgerWriteOutcomes :
       /\ ledger' = BRM_saveSkipped(ledger, id, fails)
       /\ bWriteErrs' = bWriteErrs + (IF fails THEN 1 ELSE 0)

LedgerFinalize ==
  /\ ~ledger.session.ended
  /\ \E fails \in LedgerWriteOutcomes :
       /\ ledger' = BRM_finalize(ledger, fails)
       /\ bWriteErrs' = bWriteErrs + (IF fails THEN 1 ELSE 0)

\* the ids a client saves outcomes for
LedgerIds == {GenerateId(i, RunStamp) : i \in Items}

(***************************************************************************)
(* batchCommand (batch.ts)                                                 *)
(***************************************************************************)
\* options.provider
BatchProvider == "gemini"
\* the options batchCommand passes to retryLogic.execute
BatchRetryOptions == [maxAttempts |-> 3, initialDelayMs |-> 1000, maxDelayMs |-> 10000]
BatchOpts == RL_mergeOptions(BatchRetryOptions)
\* errors classify() rejects with in the model: one transient, one terminal
ClassifyErrors == {ErrRateLimit, ErrAuth}

\* the log file an earlier run over the same input left: k success records
PriorLog(k) == [j \in 1..k |-> [id |-> GenerateId(j, PriorStamp), status |-> "success", attempts |-> 1]]
PriorSession(k) ==
  IF k = 0 THEN NoFile
  ELSE [NewSession EXCEPT !.totalItems = NumItems, !.completedItems = k, !.successfulItems = k]

BatchIdle ==
  /\ bOpts = [resume |-> FALSE, concurrency |-> Undefined]
  /\ bMain = "idle"
  /\ bPc = [i \in Items |-> "new"]
  /\ bAttempt = [i \in Items |-> 0]
  /\ bWakeAt = [i \in Items |-> Undefined]
  /\ ledger = NewLedger(<<>>, NoFile)
  /\ progress = NewProgress
  /\ bWriteErrs = 0
  /\ bOutcome = [i \in Items |-> "none"]
  /\ bBudgetChecks = [i \in Items |-> "none"]

\* batchCommand up to the construction of the result manager
BatchStateInit ==
  /\ bOpts \in [resume : BOOLEAN, concurrency : {Undefined, 1}]
  /\ bMain = "init"
  /\ bPc = [i \in Items |-> "new"]
  /\ bAttempt = [i \in Items |-> 0]
  /\ bWakeAt = [i \in Items |-> Undefined]
  /\ \E k \in 0..MaxPrior :
       /\ (k > 0) => bOpts.resume
       /\ ledger = NewLedger(PriorLog(k), PriorSession(k))
  /\ progress = NewProgress
  /\ bWriteErrs = 0
  /\ bOutcome = [i \in Items |-> "none"]
  /\ bBudgetChecks = [i \in Items |-> "none"]

\* whether a session-file write may fail now
WriteOutcomes == IF bWriteErrs < MaxWriteErrors THEN {FALSE, TRUE} ELSE {FALSE}
Count(f) == IF f THEN 1 ELSE 0

\* the tasks the queue started between q and q2 begin their first attempt
StartTasks(pc, q, q2) ==
  [i \in Items |->
     IF i \in SeqToSet(q.waiting) \ SeqToSet(q2.waiting) THEN "attempt" ELSE pc[i]]

RECURSIVE AddAll(_, _)
\* batchResult.items.map((item) => queue.add(...))
AddAll(q, k) == IF k > NumItems THEN q ELSE AddAll(PQ_add(q, k), k + 1)

\* initialize the result manager and the progress tracker, get the queue and
\* submit every item; a failing session write ends in the outer catch
BatchStart ==
  /\ bMain = "init"
  /\ \E fails \in WriteOutcomes :
       /\ ledger' = BRM_initialize(ledger, Len(BatchItems), fails)
       /\ bWriteErrs' = bWriteErrs + Count(fails)
       /\ IF fails
            THEN /\ bMain' = "exit1"
                 /\ rm' = RM_stopMonitoring(rm)
                 /\ UNCHANGED <<progress, queues, bPc, bAttempt>>
            ELSE LET qs == CC_getQueue(queues, BatchProvider,
                                       [maxConcurrent |-> bOpts.concurrency, autoStart |-> "undefined"])
                     q2 == AddAll(qs[BatchProvider], 1)
                 IN /\ bMain' = "awaiting"
                    /\ rm' = RM_onShutdown(rm, "batchHook")
                    /\ progress' = PT_initialize(progress, Len(BatchItems))
                    /\ queues' = [qs EXCEPT ![BatchProvider] = q2]
                    /\ bPc' = [i \in Items |->
                                 IF i \in SeqToSet(q2.waiting) THEN "queued" ELSE "attempt"]
                    /\ bAttempt' = [i \in Items |->
                                      IF i \in SeqToSet(q2.waiting) THEN 0 ELSE 1]
  /\ UNCHANGED <<bOpts, bWakeAt, breakers, bOutcome, rmSignals>>

\* the task of item i settles: its slot goes to the next queued task
TaskSettles(i, outcome) ==
  LET q == queues[BatchProvider]
      q2 == PQ_next(q)
  IN /\ queues' = [queues EXCEPT ![BatchProvider] = q2]
     /\ bPc' = [StartTasks(bPc, q, q2) EXCEPT ![i] = outcome]
     /\ bAttempt' = [j \in Items |->
                       IF j \in SeqToSet(q.waiting) \ SeqToSet(q2.waiting) THEN 1 ELSE bAttempt[j]]

\* a task without its catch block: the error of the retry executor rejects it
TaskRecordsFailure_Rethrows(i, L) ==
  /\ ledger' = L
  /\ bWriteErrs' = bWriteErrs
  /\ progress' = progress
  /\ TaskSettles(i, "rejected")

\* the catch block of the task: saveFailure, incrementFailure
TaskRecordsFailure(i, L) ==
  \E fails \in WriteOutcomes :
    /\ ledger' = BRM_saveFailure(L, BatchItems[i].id, 1, fails)
    /\ bWriteErrs' = bWriteErrs + Count(fails)
    /\ progress' = IF fails THEN progress ELSE PT_incrementFailure(progress)
    /\ TaskSettles(i, IF fails THEN "rejected" ELSE "done")

\* retryLogic.execute's catch block for the error of attempt bAttempt[i]
TaskHandlesError(i, error) ==
  LET isRetryable == RL_isRetryableError(error, BatchOpts.retryableErrors) IN
  IF RL_giveUp(isRetryable, bAttempt[i], BatchOpts.maxAttempts)
    THEN /\ TaskRecordsFailure(i, ledger)
         /\ bOutcome' = [bOutcome EXCEPT ![i] = "error"]
         /\ UNCHANGED bWakeAt
    ELSE /\ bPc' = [bPc EXCEPT ![i] = "sleep"]
         /\ bWakeAt' = [bWakeAt EXCEPT ![i] = now + RL_calculateDelay(bAttempt[i], BatchOpts)]
         /\ UNCHANGED <<queues, bAttempt, ledger, progress, bWriteErrs, bOutcome>>

\* an attempt of item i: circuitBreakerManager.execute up to classify()
TaskAttempts(i) ==
  /\ bMain = "awaiting"
  /\ bPc[i] = "attempt"
  /\ LET bs == CBM_getBreaker(breakers, BatchProvider, NoOptions)
         b == bs[BatchProvider]
     IN IF CB_admits(b, now)
          THEN /\ breakers' = [bs EXCEPT ![BatchProvider] = CB_enter(b, now)]
               /\ bPc' = [bPc EXCEPT ![i] = "classify"]
               /\ UNCHANGED <<queues, bAttempt, bWakeAt, ledger, progress, bWriteErrs, bOutcome>>
          ELSE /\ breakers' = bs
               /\ TaskHandlesError(i, ErrBreakerOpen)
  /\ UNCHANGED <<bOpts, bMain>>

\* classify() resolved: onSuccess, saveSuccess, incrementSuccess; a throwing
\* saveSuccess lands in the task's catch block
TaskClassifySucceeds(i) ==
  /\ bMain = "awaiting"
  /\ bPc[i] = "classify"
  /\ breakers' = [breakers EXCEPT ![BatchProvider] = CB_onSuccess(@)]
  /\ \E fails \in WriteOutcomes :
       LET L1 == BRM_saveSuccess(ledger, BatchItems[i].id, fails) IN
       IF fails
         THEN /\ ledger' = BRM_saveFailure(L1, BatchItems[i].id, 1, FALSE)
              /\ bWriteErrs' = bWriteErrs + 1
              /\ progress' = PT_incrementFailure(progress)
              /\ TaskSettles(i, "done")
         ELSE /\ ledger' = L1
              /\ bWriteErrs' = bWriteErrs
              /\ progress' = PT_incrementSuccess(progress)
              /\ TaskSettles(i, "done")
  /\ bOutcome' = [bOutcome EXCEPT ![i] = "value"]
  /\ UNCHANGED <<bOpts, bMain, bWakeAt>>

\* classify() rejected: onFailure, then the retry executor's catch block
TaskClassifyFails(i) ==
  /\ bMain = "awaiting"
  /\ bPc[i] = "classify"
  /\ breakers' = [breakers EXCEPT ![BatchProvider] = CB_onFailure(@, now)]
  /\ \E error \in ClassifyErrors : TaskHandlesError(i, error)
  /\ UNCHANGED <<bOpts, bMain>>

\* the backoff sleep of item i resolved: attempt++
TaskWakes(i) ==
  /\ bMain = "awaiting"
  /\ bPc[i] = "sleep"
  /\ now >= bWakeAt[i]
  /\ bPc' = [bPc EXCEPT ![i] = "attempt"]
  /\ bAttempt' = [bAttempt EXCEPT ![i] = @ + 1]
  /\ UNCHANGED <<bOpts, bMain, bWakeAt, ledger, progress, bWriteErrs, queues, breakers, bOutcome>>

\* Promise.all resolved: stop the tracker, finalize, exit(0); a failing
\* session write ends in the outer catch
BatchCompletes ==
  /\ bMain = "awaiting"
  /\ \A i \in Items : bPc[i] = "done"
  /\ progress' = PT_stop(progress)
  /\ \E fails \in WriteOutcomes :
       /\ ledger' = BRM_finalize(ledger, fails)
       /\ bWriteErrs' = bWriteErrs + Count(fails)
       /\ bMain' = IF fails THEN "exit1" ELSE "exit0"
  /\ rm' = RM_stopMonitoring(rm)
  /\ UNCHANGED <<bOpts, bPc, bAttempt, bWakeAt, queues, breakers, bOutcome, rmSignals>>

\* Promise.all rejected with the error of a task: outer catch, exit(1)
BatchAborts ==
  /\ bMain = "awaiting"
  /\ \E i \in Items : bPc[i] = "rejected"
  /\ bMain' = "exit1"
  /\ rm' = RM_stopMonitoring(rm)
  /\ UNCHANGED <<bOpts, bPc, bAttempt, bWakeAt, ledger, progress, bWriteErrs, queues, breakers,
                 bOutcome, rmSignals>>

\* ConcurrencyController.pauseAll()
CC_pauseAll(qs) == [p \in Providers |-> IF qs[p] = NoQueue THEN NoQueue ELSE PQ_pause(qs[p])]

\* a hook that does not wait for the queues
CC_allIdle_NoWait(qs) == TRUE

\* the promise of waitForAllIdle() has resolved: every queue is empty with
\* nothing running
CC_allIdle(qs) ==
  \A p \in Providers :
    IF qs[p] = NoQueue THEN TRUE ELSE qs[p].pending = 0 /\ qs[p].waiting = <<>>

\* SIGINT or SIGTERM during the batch: initiateGracefulShutdown, and when it
\* calls the batch's callback, the callback up to its await: pauseAll()
BatchSignal ==
  /\ bMain \in {"init", "awaiting"}
  /\ rmSignals < MaxSignals
  /\ rmSignals' = rmSignals + 1
  /\ LET r == RM_initiateGracefulShutdown(rm) IN
       /\ rm' = r
       /\ queues' = IF r.awaiting > rm.awaiting THEN CC_pauseAll(queues) ELSE queues
  /\ UNCHANGED <<batchVars, breakers>>

\* the batch's callback after `await waitForAllIdle()`: finalize(), stop()
BatchHookResumes ==
  /\ bMain = "awaiting"
  /\ rm.awaiting > 0
  /\ rm.shutdownCallbacks[rm.awaiting] = "batchHook"
  /\ CC_allIdle(queues)
  /\ \E fails \in WriteOutcomes :
       /\ ledger' = BRM_finalize(ledger, fails)
       /\ bWriteErrs' = bWriteErrs + Count(fails)
       /\ progress' = IF fails THEN progress ELSE PT_stop(progress)
  /\ rm' = RM_callbackSettled(rm)
  /\ UNCHANGED <<bOpts, bMain, bPc, bAttempt, bWakeAt, bOutcome, queues, breakers, rmSignals>>

BatchTickSteps == {DefaultInitialDelayMs, DefaultResetTimeoutMs}

(***************************************************************************)
(* A CostTracker that is in use when a BudgetManager is built over it, and *)
(* the status the manager then reports (budget-manager.ts)                 *)
(***************************************************************************)
VARIABLES
  bmStatus    \* the spent figures of the last getStatus(), or NoStatus

stVars == <<bmStatus>>

NoStatus == [daily |-> Undefined, weekly |-> Undefined, monthly |-> Undefined]
\* the period starts of a BudgetManager that is not constructed yet
NoStart == [startOfDay |-> Undefined, startOfWeek |-> Undefined, startOfMonth |-> Undefined]

StatusIdle == bmStatus = NoStatus

\* new CostTracker(), no BudgetManager yet
StatusInit ==
  /\ bmLimits = NoLimits
  /\ bmStart = NoStart
  /\ bmAlerts = <<>>
  /\ costRecords = <<>>
  /\ spPc = [t \in Spenders |-> "idle"]
  /\ spReq = [t \in Spenders |-> NoRequest]
  /\ bmStatus = NoStatus

\* costTracker.recordCost(result) for a result stamped with the current time
TrackerRecords ==
  /\ Len(costRecords) < MaxStatusRecords
  /\ \E p \in Providers, c \in CostChoices :
       costRecords' = CT_recordCost(costRecords, [provider |-> p, costUsd |-> c, timestamp |-> now])
  /\ UNCHANGED <<bmLimits, bmStart, bmAlerts, spPc, spReq, bmStatus>>

\* new BudgetManager(limits, costTracker)
BMConstruct ==
  /\ bmStart = NoStart
  /\ bmLimits' \in LimitChoices
  /\ bmStart' = [startOfDay |-> StartOfDay(now), startOfWeek |-> StartOfWeek(now),
                 startOfMonth |-> StartOfMonth(now)]
  /\ UNCHANGED <<bmAlerts, costRecords, spPc, spReq, bmStatus>>

\* budgetManager.getStatus()
BMGetStatus ==
  /\ bmStart # NoStart
  /\ LET st == BM_getStatus(costRecords, bmStart, now)
     IN bmStatus' = [daily |-> st.daily, weekly |-> st.weekly, monthly |-> st.monthly]
  /\ UNCHANGED <<bmLimits, bmStart, bmAlerts, costRecords, spPc, spReq>>

(***************************************************************************)
(* RateLimiter (utils/rate-limiter.ts): token bucket. The token count is   *)
(* held in units of 1/MinuteMs token, which keeps the partial refill       *)
(* (timeSinceRefill / 60000) * requestsPerMinute exact.                    *)
(***************************************************************************)
VARIABLES
  limiter,    \* the RateLimiter: requestsPerMinute, tokens, lastRefill
  acqPc,      \* caller -> "idle", or "waiting" inside acquire()
  acqWakeAt,  \* caller -> time the setTimeout of its acquire() fires
  acqStarted, \* acquire() calls made
  acqDone     \* acquire() calls that returned

tbVars == <<limiter, acqPc, acqWakeAt, acqStarted, acqDone>>

MinuteMs == 60000
Callers == 1..NumCallers
\* requestsPerMinute values the limiter is built with
RateChoices == {1, 2}

\* new RateLimiter(requestsPerMinute) at time t
NewRateLimiter(requestsPerMinute, t) ==
  [requestsPerMinute |-> requestsPerMinute, tokens |-> requestsPerMinute * MinuteMs,
   lastRefill |-> t]

\* private refillTokens()
RLim_refillTokens(l, t) ==
  LET timeSinceRefill == t - l.lastRefill IN
  IF timeSinceRefill >= MinuteMs
    THEN [l EXCEPT !.tokens = l.requestsPerMinute * MinuteMs, !.lastRefill = t]
    ELSE [l EXCEPT !.tokens = Min2(l.requestsPerMinute * MinuteMs,
                                   l.tokens + timeSinceRefill * l.requestsPerMinute)]

\* this.tokens -= 1
RLim_take(l) == [l EXCEPT !.tokens = @ - MinuteMs]

RLimIdle ==
  /\ limiter = NewRateLimiter(1, 0)
  /\ acqPc = [c \in Callers |-> "idle"]
  /\ acqWakeAt = [c \in Callers |-> Undefined]
  /\ acqStarted = 0
  /\ acqDone = 0

RLimInit ==
  /\ \E r \in RateChoices : limiter = NewRateLimiter(r, now)
  /\ acqPc = [c \in Callers |-> "idle"]
  /\ acqWakeAt = [c \in Callers |-> Undefined]
  /\ acqStarted = 0
  /\ acqDone = 0

\* acquire() up to its return or its setTimeout
RLimAcquire(c) ==
  /\ acqPc[c] = "idle"
  /\ acqStarted < MaxAcquires
  /\ acqStarted' = acqStarted + 1
  /\ LET l == RLim_refillTokens(limiter, now) IN
     IF l.tokens >= MinuteMs
       THEN /\ limiter' = RLim_take(l)
            /\ acqDone' = acqDone + 1
            /\ UNCHANGED <<acqPc, acqWakeAt>>
       ELSE /\ limiter' = l
            /\ acqPc' = [acqPc EXCEPT ![c] = "waiting"]
            /\ acqWakeAt' = [acqWakeAt EXCEPT ![c] = now + (MinuteMs - (now - l.lastRefill))]
            /\ UNCHANGED acqDone

\* the timer of a waiting acquire() fired: refill, take a token, return
RLimWakes(c) ==
  /\ acqPc[c] = "waiting"
  /\ now >= acqWakeAt[c]
  /\ limiter' = RLim_take(RLim_refillTokens(limiter, now))
  /\ acqPc' = [acqPc EXCEPT ![c] = "idle"]
  /\ acqDone' = acqDone + 1
  /\ UNCHANGED <<acqWakeAt, acqStarted>>

\* getStatus(provider)
RLimGetStatus ==
  /\ limiter' = RLim_refillTokens(limiter, now)
  /\ limiter' # limiter
  /\ UNCHANGED <<acqPc, acqWakeAt, acqStarted, acqDone>>

RLimTickSteps == {MinuteMs \div 2, MinuteMs}

(***************************************************************************)
(* TwoTierCache (two-tier-cache.ts) for one key: L1 is the memory cache,   *)
(* L2 the Redis store, reached over one connection that answers commands   *)
(* in the order they were sent.                                            *)
(***************************************************************************)
VARIABLES
  cache,         \* the TwoTierCache: memoryCache entry of the key, isConnected
  redisStore,    \* the key's string in Redis, or Nil
  redisPipe,     \* commands sent to Redis and not answered yet
  ccPc,          \* caller -> "idle", or the operation it awaits Redis in
  ccResult,      \* caller -> what its last get(key) returned
  ccAfterDelete, \* caller -> its last get(key) began after a completed delete(key)
                 \*           and no set(key) was called since
  tcDeleted,     \* a delete(key) completed and no set(key) was called since
  tcOps          \* operations called

tcVars == <<cache, redisStore, redisPipe, ccPc, ccResult, ccAfterDelete, tcDeleted, tcOps>>

Null == "null"
\* the nil reply of Redis for a key it does not hold
Nil == <<>>
CacheValues == {"v1"}
CacheCallers == 1..NumCacheCallers
\* JSON.stringify(value) and JSON.parse(text) of a ClassificationResult
Stringify(v) == <<"json", v>>
Parse(text) == text[2]

\* new TwoTierCache(config) with Redis enabled, before the `connect` event
NewTwoTierCache == [memoryCache |-> Null, isConnected |-> FALSE]

\* the cache of a component that is not in use
CacheIdle ==
  /\ cache = NewTwoTierCache
  /\ redisStore = Nil
  /\ redisPipe = <<>>
  /\ ccPc = [c \in CacheCallers |-> "idle"]
  /\ ccResult = [c \in CacheCallers |-> Null]
  /\ ccAfterDelete = [c \in CacheCallers |-> FALSE]
  /\ tcDeleted = FALSE
  /\ tcOps = 0

\* a new cache over a Redis store that is persistent and shared: the key may
\* be in it already
CacheInit ==
  /\ cache = NewTwoTierCache
  /\ redisStore \in {Nil} \cup {Stringify(v) : v \in CacheValues}
  /\ redisPipe = <<>>
  /\ ccPc = [c \in CacheCallers |-> "idle"]
  /\ ccResult = [c \in CacheCallers |-> Null]
  /\ ccAfterDelete = [c \in CacheCallers |-> FALSE]
  /\ tcDeleted = FALSE
  /\ tcOps = 0

\* redis.on('connect')
CacheConnect ==
  /\ ~cache.isConnected
  /\ cache' = [cache EXCEPT !.isConnected = TRUE]
  /\ UNCHANGED <<redisStore, redisPipe, ccPc, ccResult, ccAfterDelete, tcDeleted, tcOps>>

\* get(key) up to its return or `await this.redis.get(key)`
CacheGet(c) ==
  /\ ccPc[c] = "idle" /\ tcOps < MaxCacheOps
  /\ tcOps' = tcOps + 1
  /\ ccAfterDelete' = [ccAfterDelete EXCEPT ![c] = tcDeleted]
  /\ IF cache.memoryCache # Null
       THEN /\ ccResult' = [ccResult EXCEPT ![c] = cache.memoryCache]
            /\ UNCHANGED <<redisPipe, ccPc>>
       ELSE IF cache.isConnected
         THEN /\ redisPipe' = Append(redisPipe, [op |-> "get", caller |-> c, text |-> Nil])
              /\ ccPc' = [ccPc EXCEPT ![c] = "get"]
              /\ UNCHANGED ccResult
         ELSE /\ ccResult' = [ccResult EXCEPT ![c] = Null]
              /\ UNCHANGED <<redisPipe, ccPc>>
  /\ UNCHANGED <<cache, redisStore, tcDeleted>>

\* set(key, value) up to its return or `await this.redis.setex(...)`
CacheSet(c) ==
  /\ ccPc[c] = "idle" /\ tcOps < MaxCacheOps
  /\ tcOps' = tcOps + 1
  /\ tcDeleted' = FALSE
  /\ ccAfterDelete' = [d \in CacheCallers |-> FALSE]
  /\ \E v \in CacheValues :
       /\ cache' = [cache EXCEPT !.memoryCache = v]
       /\ IF cache.isConnected
            THEN /\ redisPipe' = Append(redisPipe, [op |-> "setex", caller |-> c, text |-> Stringify(v)])
                 /\ ccPc' = [ccPc EXCEPT ![c] = "set"]
            ELSE UNCHANGED <<redisPipe, ccPc>>
  /\ UNCHANGED <<redisStore, ccResult>>

\* delete(key) up to its return or `await this.redis.del(key)`
CacheDelete(c) ==
  /\ ccPc[c] = "idle" /\ tcOps < MaxCacheOps
  /\ tcOps' = tcOps + 1
  /\ cache' = [cache EXCEPT !.memoryCache = Null]
  /\ IF cache.isConnected
       THEN /\ redisPipe' = Append(redisPipe, [op |-> "del", caller |-> c, text |-> Nil])
            /\ ccPc' = [ccPc EXCEPT ![c] = "delete"]
            /\ UNCHANGED tcDeleted
       ELSE /\ tcDeleted' = (\A d \in CacheCallers : ccPc[d] # "set")
            /\ UNCHANGED <<redisPipe, ccPc>>
  /\ UNCHANGED <<redisStore, ccResult, ccAfterDelete>>

\* Redis answers the oldest command; the awaiting operation runs to its end
RedisReplies ==
  /\ redisPipe # <<>>
  /\ LET cmd == Head(redisPipe)
         c == cmd.caller
     IN /\ redisPipe' = Tail(redisPipe)
        /\ ccPc' = [ccPc EXCEPT ![c] = "idle"]
        /\ CASE cmd.op = "get" ->
                  /\ IF redisStore # Nil
                       THEN /\ cache' = [cache EXCEPT !.memoryCache = Parse(redisStore)]
                            /\ ccResult' = [ccResult EXCEPT ![c] = Parse(redisStore)]
                       ELSE /\ ccResult' = [ccResult EXCEPT ![c] = Null]
                            /\ UNCHANGED cache
                  /\ UNCHANGED <<redisStore, tcDeleted>>
             [] cmd.op = "setex" ->
                  /\ redisStore' = cmd.text
                  /\ UNCHANGED <<cache, ccResult, tcDeleted>>
             [] cmd.op = "del" ->
                  /\ redisStore' = Nil
                  /\ tcDeleted' = (\A d \in CacheCallers : ccPc[d] # "set")
                  /\ UNCHANGED <<cache, ccResult>>
  /\ UNCHANGED <<ccAfterDelete, tcOps>>

(***************************************************************************)
(* WebSocketClient (web/src/lib/websocket.ts). A socket is the index of    *)
(* its WebSocket object in `sockets`; 0 is `null`.                         *)
(***************************************************************************)
VARIABLES
  wsClient,   \* the WebSocketClient: ws, reconnectAttempts, isIntentionallyClosed
  sockets,    \* the WebSocket objects created: "connecting", "open", "closing", "closed"
  wsTimers,   \* reconnect timers set by handleReconnect and not fired yet
  wsQuiet,    \* disconnect() was called and connect() has not been called by the user since
  wsAuto      \* connect() calls made by reconnect timers since the last `open` event

wsVars == <<wsClient, sockets, wsTimers, wsQuiet, wsAuto>>

MaxReconnectAttempts == 5

\* new WebSocketClient(baseURL)
NewWebSocketClient == [ws |-> 0, reconnectAttempts |-> 0, isIntentionallyClosed |-> FALSE]

WSInit ==
  /\ wsClient = NewWebSocketClient
  /\ sockets = <<>>
  /\ wsTimers = 0
  /\ wsQuiet = FALSE
  /\ wsAuto = 0

\* connect(): clear the flag, create the WebSocket and attach its handlers
WS_connect(c, n) == [c EXCEPT !.isIntentionallyClosed = FALSE, !.ws = n]

\* connect() called by the application
WSConnect ==
  /\ Len(sockets) < MaxSockets
  /\ sockets' = Append(sockets, "connecting")
  /\ wsClient' = WS_connect(wsClient, Len(sockets) + 1)
  /\ wsQuiet' = FALSE
  /\ UNCHANGED <<wsTimers, wsAuto>>

\* a reconnect timer fires: this.connect().catch(...)
WSTimerFires ==
  /\ wsTimers > 0
  /\ Len(sockets) < MaxSockets
  /\ wsTimers' = wsTimers - 1
  /\ sockets' = Append(sockets, "connecting")
  /\ wsClient' = WS_connect(wsClient, Len(sockets) + 1)
  /\ wsAuto' = wsAuto + 1
  /\ UNCHANGED wsQuiet

\* ws.onopen
WSSocketOpens(k) ==
  /\ sockets[k] = "connecting"
  /\ sockets' = [sockets EXCEPT ![k] = "open"]
  /\ wsClient' = [wsClient EXCEPT !.reconnectAttempts = 0]
  /\ wsAuto' = 0
  /\ UNCHANGED <<wsTimers, wsQuiet>>

\* ws.onclose (after a failed connection, a close by the server or close()):
\* handleReconnect()
WSSocketCloses(k) ==
  /\ sockets[k] \in {"connecting", "open", "closing"}
  /\ sockets' = [sockets EXCEPT ![k] = "closed"]
  /\ IF ~wsClient.isIntentionallyClosed /\ wsClient.reconnectAttempts < MaxReconnectAttempts
       THEN /\ wsClient' = [wsClient EXCEPT !.reconnectAttempts = @ + 1]
            /\ wsTimers' = wsTimers + 1
       ELSE UNCHANGED <<wsClient, wsTimers>>
  /\ UNCHANGED <<wsQuiet, wsAuto>>

\* disconnect()
WSDisconnect ==
  /\ wsClient' = [wsClient EXCEPT !.isIntentionallyClosed = TRUE, !.ws = 0]
  /\ sockets' = IF wsClient.ws # 0 /\ sockets[wsClient.ws] \in {"connecting", "open"}
                  THEN [sockets EXCEPT ![wsClient.ws] = "closing"]
                  ELSE sockets
  /\ wsQuiet' = TRUE
  /\ UNCHANGED <<wsTimers, wsAuto>>

(***************************************************************************)
(* The retry pipeline of a batch's tasks (batch.ts), without the result    *)
(* ledger: queue.add(() => retryLogic.execute(() =>                        *)
(*   circuitBreakerManager.execute(provider, classify)))                   *)
(***************************************************************************)
VARIABLES
  plPc,       \* item -> "new", "queued", "attempt", "classify", "sleep", "saved", "failed"
  plAttempt,  \* item -> `attempt` of retryLogic.execute's loop
  plWakeAt,   \* item -> time its backoff sleep ends
  plCalls,    \* item -> calls of providerInstance.classify made for it
  plSleeps    \* item -> backoff sleeps started for it

plVars == <<plPc, plAttempt, plWakeAt, plCalls, plSleeps>>

PipeItems == 1..NumPipeItems
\* options.concurrency
PipeConcurrency == {1, 2}

PipeIdle ==
  /\ plPc = [i \in PipeItems |-> "new"]
  /\ plAttempt = [i \in PipeItems |-> 0]
  /\ plWakeAt = [i \in PipeItems |-> Undefined]
  /\ plCalls = [i \in PipeItems |-> 0]
  /\ plSleeps = [i \in PipeItems |-> 0]

RECURSIVE PipeAddAll(_, _)
\* batchResult.items.map((item) => queue.add(...))
PipeAddAll(q, k) == IF k > NumPipeItems THEN q ELSE PipeAddAll(PQ_add(q, k), k + 1)

\* getQueue and the submission of every item
PipeSubmit ==
  /\ \A i \in PipeItems : plPc[i] = "new"
  /\ \E c \in PipeConcurrency :
       LET qs == CC_getQueue(queues, BatchProvider, [maxConcurrent |-> c, autoStart |-> "undefined"])
           q2 == PipeAddAll(qs[BatchProvider], 1)
       IN /\ queues' = [qs EXCEPT ![BatchProvider] = q2]
          /\ plPc' = [i \in PipeItems |-> IF i \in SeqToSet(q2.waiting) THEN "queued" ELSE "attempt"]
          /\ plAttempt' = [i \in PipeItems |-> IF i \in SeqToSet(q2.waiting) THEN 0 ELSE 1]
  /\ UNCHANGED <<plWakeAt, plCalls, plSleeps, breakers>>

\* the task of item i settles: its slot goes to the next queued task
PipeSettles(i, outcome) ==
  LET q == queues[BatchProvider]
      q2 == PQ_next(q)
      started == SeqToSet(q.waiting) \ SeqToSet(q2.waiting)
  IN /\ queues' = [queues EXCEPT ![BatchProvider] = q2]
     /\ plPc' = [j \in PipeItems |->
                   IF j = i THEN outcome ELSE IF j \in started THEN "attempt" ELSE plPc[j]]
     /\ plAttempt' = [j \in PipeItems |-> IF j \in started THEN 1 ELSE plAttempt[j]]

\* retryLogic.execute's catch block for the error of attempt plAttempt[i]
PipeHandlesError(i, error) ==
  LET isRetryable == RL_isRetryableError(error, BatchOpts.retryableErrors) IN
  IF RL_giveUp(isRetryable, plAttempt[i], BatchOpts.maxAttempts)
    THEN /\ PipeSettles(i, "failed")
         /\ UNCHANGED <<plWakeAt, plSleeps>>
    ELSE /\ plPc' = [plPc EXCEPT ![i] = "sleep"]
         /\ plWakeAt' = [plWakeAt EXCEPT ![i] = now + RL_calculateDelay(plAttempt[i], BatchOpts)]
         /\ plSleeps' = [plSleeps EXCEPT ![i] = @ + 1]
         /\ UNCHANGED <<queues, plAttempt>>

\* an attempt of item i: circuitBreakerManager.execute up to classify()
PipeAttempts(i) ==
  /\ plPc[i] = "attempt"
  /\ LET bs == CBM_getBreaker(breakers, BatchProvider, NoOptions)
         b == bs[BatchProvider]
     IN IF CB_admits(b, now)
          THEN /\ breakers' = [bs EXCEPT ![BatchProvider] = CB_enter(b, now)]
               /\ plPc' = [plPc EXCEPT ![i] = "classify"]
               /\ plCalls' = [plCalls EXCEPT ![i] = @ + 1]
               /\ UNCHANGED <<queues, plAttempt, plWakeAt, plSleeps>>
          ELSE /\ breakers' = bs
               /\ PipeHandlesError(i, ErrBreakerOpen)
               /\ UNCHANGED plCalls

\* classify() resolved: onSuccess, the task settles
PipeClassifySucceeds(i) ==
  /\ plPc[i] = "classify"
  /\ breakers' = [breakers EXCEPT ![BatchProvider] = CB_onSuccess(@)]
  /\ PipeSettles(i, "saved")
  /\ UNCHANGED <<plWakeAt, plCalls, plSleeps>>

\* classify() rejected: onFailure, then the retry executor's catch block
PipeClassifyFails(i) ==
  /\ plPc[i] = "classify"
  /\ breakers' = [breakers EXCEPT ![BatchProvider] = CB_onFailure(@, now)]
  /\ \E error \in ClassifyErrors : PipeHandlesError(i, error)
  /\ UNCHANGED plCalls

\* the backoff sleep of item i resolved: attempt++
PipeWakes(i) ==
  /\ plPc[i] = "sleep"
  /\ now >= plWakeAt[i]
  /\ plPc' = [plPc EXCEPT ![i] = "attempt"]
  /\ plAttempt' = [plAttempt EXCEPT ![i] = @ + 1]
  /\ UNCHANGED <<plWakeAt, plCalls, plSleeps, queues, breakers>>

\* the components the batch command does not use, and the pipeline view of it
extVars == <<plVars, stVars, tbVars, tcVars, wsVars>>
ExtIdle == PipeIdle /\ StatusIdle /\ RLimIdle /\ CacheIdle /\ WSInit

vars == <<now, ticks, breakers, cbInflight, cbFnCalls, cbRejected, cbConsecFails, cbProbeSucc,
          rlOpts, rlScript, rlPc, rlAttempt, rlCalls, rlSlept, rlWakeAt, rlResult, rlLog,
          queues, qTask, qTaskProvider,
          bmLimits, bmStart, bmAlerts, costRecords, spPc, spReq,
          bOpts, bMain, bPc, bAttempt, bWakeAt, ledger, progress, bWriteErrs,
          bOutcome, bBudgetChecks, rm, rmSignals, extVars>>

(***************************************************************************)
(* Specifications                                                          *)
(***************************************************************************)
BreakerInit == ClockInit /\ CBInit /\ RLIdle /\ PQIdle /\ BMIdle /\ BatchIdle /\ RMIdle /\ ExtIdle

BreakerNext ==
  \/ (TickBy(BreakerTickSteps) /\ UNCHANGED <<cbVars, rlVars, pqVars, bmVars, batchVars, rmVars, extVars>>)
  \/ \E p \in Providers : CBGetBreaker(p) /\ UNCHANGED <<clockVars, rlVars, pqVars, bmVars, batchVars, rmVars, extVars>>
  \/ \E p \in Providers : CBExecuteBegin(p) /\ UNCHANGED <<clockVars, rlVars, pqVars, bmVars, batchVars, rmVars, extVars>>
  \/ \E p \in Providers : CBFnSucceeds(p) /\ UNCHANGED <<clockVars, rlVars, pqVars, bmVars, batchVars, rmVars, extVars>>
  \/ \E p \in Providers : CBFnFails(p) /\ UNCHANGED <<clockVars, rlVars, pqVars, bmVars, batchVars, rmVars, extVars>>

SpecBreaker == BreakerInit /\ [][BreakerNext]_vars

RetryInit == ClockInit /\ CBInit /\ RLInit /\ PQIdle /\ BMIdle /\ BatchIdle /\ RMIdle /\ ExtIdle

RetryNext ==
  \/ (TickBy(RetryTickSteps) /\ UNCHANGED <<cbVars, rlVars, pqVars, bmVars, batchVars, rmVars, extVars>>)
  \/ (RLCallSucceeds /\ UNCHANGED <<clockVars, cbVars, pqVars, bmVars, batchVars, rmVars, extVars>>)
  \/ (RLCallFailsFinal /\ UNCHANGED <<clockVars, cbVars, pqVars, bmVars, batchVars, rmVars, extVars>>)
  \/ (RLCallFailsRetry /\ UNCHANGED <<clockVars, cbVars, pqVars, bmVars, batchVars, rmVars, extVars>>)
  \/ (RLWake /\ UNCHANGED <<clockVars, cbVars, pqVars, bmVars, batchVars, rmVars, extVars>>)
  \/ (RLExhausted /\ UNCHANGED <<clockVars, cbVars, pqVars, bmVars, batchVars, rmVars, extVars>>)

SpecRetry == RetryInit /\ [][RetryNext]_vars

QueueInit == ClockInit /\ CBInit /\ RLIdle /\ PQIdle /\ BMIdle /\ BatchIdle /\ RMIdle /\ ExtIdle

QueueNext ==
  \/ \E p \in Providers : CCGetQueue(p) /\ UNCHANGED <<clockVars, cbVars, rlVars, bmVars, batchVars, rmVars, extVars>>
  \/ \E p \in Providers, t \in Tasks : CCExecute(p, t) /\ UNCHANGED <<clockVars, cbVars, rlVars, bmVars, batchVars, rmVars, extVars>>
  \/ \E t \in Tasks : CCTaskSettles(t) /\ UNCHANGED <<clockVars, cbVars, rlVars, bmVars, batchVars, rmVars, extVars>>
  \/ \E p \in Providers : CCPause(p) /\ UNCHANGED <<clockVars, cbVars, rlVars, bmVars, batchVars, rmVars, extVars>>
  \/ \E p \in Providers : CCResume(p) /\ UNCHANGED <<clockVars, cbVars, rlVars, bmVars, batchVars, rmVars, extVars>>

SpecQueue == QueueInit /\ [][QueueNext]_vars

BudgetInit ==
  /\ now \in ConstructionTimes /\ ticks = 0
  /\ CBInit /\ RLIdle /\ PQIdle /\ BMInit /\ BatchIdle /\ RMIdle /\ ExtIdle

BudgetNext ==
  \/ (TickBy(BudgetTickSteps) /\ UNCHANGED <<cbVars, rlVars, pqVars, bmVars, batchVars, rmVars, extVars>>)
  \/ \E t \in Spenders : SpenderChecks(t) /\ UNCHANGED <<clockVars, cbVars, rlVars, pqVars, batchVars, rmVars, extVars>>
  \/ \E t \in Spenders : SpenderRecords(t) /\ UNCHANGED <<clockVars, cbVars, rlVars, pqVars, batchVars, rmVars, extVars>>

SpecBudget == BudgetInit /\ [][BudgetNext]_vars

BudgetSeqInit ==
  /\ now \in ConstructionTimes /\ ticks = 0
  /\ CBInit /\ RLIdle /\ PQIdle /\ SeqInit /\ BatchIdle /\ RMIdle /\ ExtIdle

BudgetSeqNext ==
  \/ (SeqTick /\ UNCHANGED <<cbVars, rlVars, pqVars, bmVars, batchVars, rmVars, extVars>>)
  \/ (SeqChecks /\ UNCHANGED <<clockVars, cbVars, rlVars, pqVars, batchVars, rmVars, extVars>>)
  \/ (SpenderRecords(SeqClient) /\ UNCHANGED <<clockVars, cbVars, rlVars, pqVars, batchVars, rmVars, extVars>>)
  \/ (SeqNextItem /\ UNCHANGED <<clockVars, cbVars, rlVars, pqVars, batchVars, rmVars, extVars>>)

SpecBudgetSeq == BudgetSeqInit /\ [][BudgetSeqNext]_vars

ledgerFrame == <<clockVars, cbVars, rlVars, pqVars, bmVars, rmVars, extVars,
                 bOpts, bMain, bPc, bAttempt, bWakeAt, progress, bOutcome, bBudgetChecks>>

LedgerInit == ClockInit /\ CBInit /\ RLIdle /\ PQIdle /\ BMIdle /\ LedgerStateInit /\ RMIdle /\ ExtIdle

LedgerNext ==
  \/ (LedgerInitialize /\ UNCHANGED ledgerFrame)
  \/ \E id \in LedgerIds : LedgerSaveSuccess(id) /\ UNCHANGED ledgerFrame
  \/ \E id \in LedgerIds : LedgerSaveFailure(id) /\ UNCHANGED ledgerFrame
  \/ \E id \in LedgerIds : LedgerSaveSkipped(id) /\ UNCHANGED ledgerFrame
  \/ (LedgerFinalize /\ UNCHANGED ledgerFrame)

SpecLedger == LedgerInit /\ [][LedgerNext]_vars

shutdownFrame == <<clockVars, cbVars, rlVars, pqVars, bmVars, batchVars, extVars>>

ShutdownInit == ClockInit /\ CBInit /\ RLIdle /\ PQIdle /\ BMIdle /\ BatchIdle /\ RMIdle /\ ExtIdle

ShutdownNext ==
  \/ (RMRegister /\ UNCHANGED shutdownFrame)
  \/ (RMSignal /\ UNCHANGED shutdownFrame)
  \/ (RMFatalError /\ UNCHANGED shutdownFrame)
  \/ (RMCallbackResolves /\ UNCHANGED shutdownFrame)
  \/ (RMCallbackRejects /\ UNCHANGED shutdownFrame)

SpecShutdown == ShutdownInit /\ [][ShutdownNext]_vars

\* what the batch leaves alone: the component clients of the other specifications
batchFrame == <<cbInflight, cbFnCalls, cbRejected, cbConsecFails, cbProbeSucc,
                rlVars, qTask, qTaskProvider, bmVars, bBudgetChecks, extVars>>

BatchInit ==
  /\ ClockInit /\ CBInit /\ RLIdle /\ PQIdle /\ BMIdle /\ BatchStateInit
  /\ rm = RM_startMonitoring(NewResourceManager)
  /\ rmSignals = 0
  /\ ExtIdle

BatchNext ==
  \/ (TickBy(BatchTickSteps) /\ bMain = "awaiting"
        /\ UNCHANGED <<cbVars, rlVars, pqVars, bmVars, batchVars, rmVars, extVars>>)
  \/ (BatchStart /\ UNCHANGED <<clockVars, batchFrame>>)
  \/ \E i \in Items : TaskAttempts(i) /\ UNCHANGED <<clockVars, batchFrame, rmVars, extVars>>
  \/ \E i \in Items : TaskClassifySucceeds(i) /\ UNCHANGED <<clockVars, batchFrame, rmVars, extVars>>
  \/ \E i \in Items : TaskClassifyFails(i) /\ UNCHANGED <<clockVars, batchFrame, rmVars, extVars>>
  \/ \E i \in Items : TaskWakes(i) /\ UNCHANGED <<clockVars, batchFrame, rmVars, extVars>>
  \/ (BatchCompletes /\ UNCHANGED <<clockVars, batchFrame>>)
  \/ (BatchAborts /\ UNCHANGED <<clockVars, batchFrame>>)
  \/ (BatchSignal /\ UNCHANGED <<clockVars, cbInflight, cbFnCalls, cbRejected, cbConsecFails,
                                   cbProbeSucc, rlVars, qTask, qTaskProvider, bmVars, extVars>>)
  \/ (BatchHookResumes /\ UNCHANGED <<clockVars, batchFrame>>)

SpecBatch == BatchInit /\ [][BatchNext]_vars

\* the variables of every component but the budget's
statusFrame == <<cbVars, rlVars, pqVars, batchVars, rmVars, plVars, tbVars, tcVars, wsVars>>

BudgetStatusInit ==
  /\ now \in ConstructionTimes /\ ticks = 0
  /\ CBInit /\ RLIdle /\ PQIdle /\ StatusInit /\ BatchIdle /\ RMIdle /\ PipeIdle /\ RLimIdle
  /\ CacheIdle /\ WSInit

BudgetStatusNext ==
  \/ (TickBy(BudgetTickSteps) /\ UNCHANGED <<statusFrame, bmVars, stVars>>)
  \/ (TrackerRecords /\ UNCHANGED <<clockVars, statusFrame>>)
  \/ (BMConstruct /\ UNCHANGED <<clockVars, statusFrame>>)
  \/ (BMGetStatus /\ UNCHANGED <<clockVars, statusFrame>>)

SpecBudgetStatus == BudgetStatusInit /\ [][BudgetStatusNext]_vars

\* the variables of every component but the rate limiter's
limiterFrame == <<cbVars, rlVars, pqVars, bmVars, batchVars, rmVars, plVars, stVars, tcVars, wsVars>>

LimiterInit ==
  /\ ClockInit /\ CBInit /\ RLIdle /\ PQIdle /\ BMIdle /\ BatchIdle /\ RMIdle
  /\ PipeIdle /\ StatusIdle /\ RLimInit /\ CacheIdle /\ WSInit

LimiterNext ==
  \/ (TickBy(RLimTickSteps) /\ UNCHANGED <<limiterFrame, tbVars>>)
  \/ \E c \in Callers : RLimAcquire(c) /\ UNCHANGED <<clockVars, limiterFrame>>
  \/ \E c \in Callers : RLimWakes(c) /\ UNCHANGED <<clockVars, limiterFrame>>
  \/ (RLimGetStatus /\ UNCHANGED <<clockVars, limiterFrame>>)

SpecLimiter == LimiterInit /\ [][LimiterNext]_vars

\* the variables of every component but the cache's
cacheFrame == <<clockVars, cbVars, rlVars, pqVars, bmVars, batchVars, rmVars, plVars, stVars, tbVars, wsVars>>

CacheSpecInit ==
  /\ ClockInit /\ CBInit /\ RLIdle /\ PQIdle /\ BMIdle /\ BatchIdle /\ RMIdle
  /\ PipeIdle /\ StatusIdle /\ RLimIdle /\ CacheInit /\ WSInit

CacheNext ==
  \/ (CacheConnect /\ UNCHANGED cacheFrame)
  \/ \E c \in CacheCallers : CacheGet(c) /\ UNCHANGED cacheFrame
  \/ \E c \in CacheCallers : CacheSet(c) /\ UNCHANGED cacheFrame
  \/ \E c \in CacheCallers : CacheDelete(c) /\ UNCHANGED cacheFrame
  \/ (RedisReplies /\ UNCHANGED cacheFrame)

SpecCache == CacheSpecInit /\ [][CacheNext]_vars

\* the variables of every component but the WebSocket client's
socketFrame == <<clockVars, cbVars, rlVars, pqVars, bmVars, batchVars, rmVars,
                 plVars, stVars, tbVars, tcVars>>

SocketInit ==
  /\ ClockInit /\ CBInit /\ RLIdle /\ PQIdle /\ BMIdle /\ BatchIdle /\ RMIdle
  /\ PipeIdle /\ StatusIdle /\ RLimIdle /\ CacheIdle /\ WSInit

SocketNext ==
  \/ (WSConnect /\ UNCHANGED socketFrame)
  \/ (WSTimerFires /\ UNCHANGED socketFrame)
  \/ \E k \in 1..Len(sockets) : WSSocketOpens(k) /\ UNCHANGED socketFrame
  \/ \E k \in 1..Len(sockets) : WSSocketCloses(k) /\ UNCHANGED socketFrame
  \/ (WSDisconnect /\ UNCHANGED socketFrame)

SpecSocket == SocketInit /\ [][SocketNext]_vars

(***************************************************************************)

\* the variables of every component but the pipeline's own
pipeFrame == <<cbInflight, cbFnCalls, cbRejected, cbConsecFails, cbProbeSucc,
               rlVars, qTask, qTaskProvider, bmVars, batchVars, rmVars, stVars, tbVars, tcVars, wsVars>>

PipeInit ==
  /\ ClockInit /\ CBInit /\ RLIdle /\ PQIdle /\ BMIdle /\ BatchIdle /\ RMIdle
  /\ PipeIdle /\ StatusIdle /\ RLimIdle /\ CacheIdle /\ WSInit

PipeNext ==
  \/ (TickBy(BatchTickSteps) /\ (\E i \in PipeItems : plPc[i] # "new")
        /\ UNCHANGED <<cbVars, rlVars, pqVars, bmVars, batchVars, rmVars, extVars>>)
  \/ (PipeSubmit /\ UNCHANGED <<clockVars, pipeFrame>>)
  \/ \E i \in PipeItems : PipeAttempts(i) /\ UNCHANGED <<clockVars, pipeFrame>>
  \/ \E i \in PipeItems : PipeClassifySucceeds(i) /\ UNCHANGED <<clockVars, pipeFrame>>
  \/ \E i \in PipeItems : PipeClassifyFails(i) /\ UNCHANGED <<clockVars, pipeFrame>>
  \/ \E i \in PipeItems : PipeWakes(i) /\ UNCHANGED <<clockVars, pipeFrame>>

SpecPipe == PipeInit /\ [][PipeNext]_vars

(* Circuit breaker properties                                              *)
(***************************************************************************)
\* an execute() call was issued to provider p in this step
ExecIssued(p) == cbFnCalls'[p] + cbRejected'[p] = cbFnCalls[p] + cbRejected[p] + 1
\* a call admitted by p's breaker settled in this step
FailureCompleted(p) == cbInflight'[p] < cbInflight[p] /\ cbConsecFails'[p] = cbConsecFails[p] + 1
SuccessCompleted(p) == cbInflight'[p] < cbInflight[p] /\ cbConsecFails'[p] = 0

\* F consecutive failures seen and the reset timeout since the last of them not elapsed
ThresholdReached(p) ==
  /\ breakers[p] # NoBreaker
  /\ cbConsecFails[p] >= breakers[p].options.failureThreshold
  /\ now < breakers[p].lastFailureTime + breakers[p].options.resetTimeoutMs

\* C4: a breaker that has seen failureThreshold consecutive failing calls is
\* open, and an execute() issued before the reset timeout elapses is rejected
\* with the breaker-open error without invoking the function.
C4_OpenAfterThresholdRejects ==
  /\ [](\A p \in Providers :
          ThresholdReached(p) =>
            /\ breakers[p].state = "open"
            /\ breakers[p].nextRetryTime =
                 breakers[p].lastFailureTime + breakers[p].options.resetTimeoutMs)
  /\ [][\A p \in Providers :
          (ThresholdReached(p) /\ ExecIssued(p)) =>
            /\ cbRejected'[p] = cbRejected[p] + 1
            /\ cbFnCalls'[p] = cbFnCalls[p]
            /\ cbInflight'[p] = cbInflight[p]
            /\ breakers'[p] = breakers[p]]_vars

\* C4 witness: a breaker tripped by consecutive failures has rejected a call
C4_Witness ==
  \E p \in Providers :
    /\ ThresholdReached(p)
    /\ breakers[p].state = "open"
    /\ cbRejected[p] >= 1

\* C5: in half-open, a call whose function fails returns the breaker to open
\* with a newly scheduled retry time, whatever history led to half-open.
C5_HalfOpenFailureReopens ==
  [][\A p \in Providers :
       (breakers[p].state = "half-open" /\ FailureCompleted(p)) =>
         /\ breakers'[p].state = "open"
         /\ breakers'[p].nextRetryTime = now + breakers[p].options.resetTimeoutMs]_vars

\* C6: on an open breaker whose reset timeout has elapsed the next execute()
\* moves it to half-open and invokes the function; after successThreshold
\* consecutive successes in half-open it is closed with both counts at zero.
C6_ProbeThenClose ==
  [][\A p \in Providers :
       /\ (/\ breakers[p].state = "open"
           /\ now >= breakers[p].nextRetryTime
           /\ ExecIssued(p)) =>
            /\ breakers'[p].state = "half-open"
            /\ cbFnCalls'[p] = cbFnCalls[p] + 1
            /\ cbInflight'[p] = cbInflight[p] + 1
       /\ (/\ breakers[p].state = "half-open"
           /\ SuccessCompleted(p)
           /\ cbProbeSucc'[p] >= breakers[p].options.successThreshold) =>
            /\ breakers'[p].state = "closed"
            /\ breakers'[p].failures = 0
            /\ breakers'[p].successes = 0]_vars

\* C6 witness: a breaker closed again by successThreshold successful probes
C6_Witness ==
  \E p \in Providers :
    /\ breakers[p] # NoBreaker
    /\ breakers[p].state = "closed"
    /\ cbProbeSucc[p] >= breakers[p].options.successThreshold
    /\ cbConsecFails[p] = 0
    /\ cbRejected[p] >= 1

(***************************************************************************)
(* Dispatch queue properties                                               *)
(***************************************************************************)
Executing(p) == {t \in Tasks : qTaskProvider[t] = p /\ qTask[t] = "running"}

\* C7: for each provider queue with concurrency N, never more than N of the
\* tasks submitted to it execute at once; tasks of other queues do not count.
C7_ConcurrencyBound ==
  \A p \in Providers :
    queues[p] # NoQueue => Cardinality(Executing(p)) <= queues[p].concurrency

\* C7 witness: a queue is full with tasks waiting behind it while another
\* provider's queue is executing a task of its own
C7_Witness ==
  \E p \in Providers, r \in Providers :
    /\ p # r
    /\ queues[p] # NoQueue
    /\ Cardinality(Executing(p)) = queues[p].concurrency
    /\ Len(queues[p].waiting) > 0
    /\ ~queues[p].isPaused
    /\ Executing(r) # {}

(***************************************************************************)
(* Retry executor properties                                               *)
(***************************************************************************)
\* C9: a function failing with a non-retryable error (authentication,
\* validation) is invoked exactly once, no backoff delay is slept and the
\* error is propagated.
C9_NonRetryableOnce ==
  (/\ rlPc # "idle"
   /\ rlOpts.maxAttempts >= 1
   /\ ~rlScript[1].ok
   /\ rlScript[1].error \in TerminalErrors) =>
     /\ rlCalls <= 1
     /\ rlSlept = <<>>
     /\ rlPc \in {"call", "threw"}
     /\ (rlCalls = 1) <=> (rlPc = "threw")
     /\ rlPc = "threw" => rlResult = [kind |-> "error", error |-> rlScript[1].error]

\* C9 witness: a terminal error was thrown at attempt 1 with attempts to spare
C9_Witness ==
  /\ rlPc = "threw"
  /\ rlOpts.maxAttempts >= 2
  /\ rlScript[1].error \in TerminalErrors
  /\ rlCalls = 1

\* C10: fn is invoked at most maxAttempts times; the first successful result
\* is returned; when every attempt fails with a transient error the last
\* error is re-raised annotated with the attempt count.
C10_FirstSuccessOrAnnotatedLastError ==
  rlPc # "idle" =>
    /\ rlCalls <= rlOpts.maxAttempts
    /\ rlPc = "returned" =>
         /\ rlScript[rlCalls].ok
         /\ \A k \in 1..(rlCalls - 1) : ~rlScript[k].ok
         /\ rlResult = [kind |-> "value", value |-> rlScript[rlCalls].value]
    /\ (/\ rlPc = "threw"
        /\ rlOpts.maxAttempts >= 1
        /\ \A k \in 1..rlOpts.maxAttempts :
             ~rlScript[k].ok /\ rlScript[k].error \in TransientErrors) =>
         /\ rlCalls = rlOpts.maxAttempts
         /\ rlResult.kind = "error"
         /\ rlResult.error.code = rlScript[rlCalls].error.code
         /\ rlResult.error.message = rlScript[rlCalls].error.message
         /\ rlResult.error.attempts = rlCalls

\* C17: after pause(provider) the provider's queue starts no further queued
\* task until resume(provider); pausing cancels nothing, and a task that was
\* executing goes on to completion, where its outcome is delivered.
C17_PauseHoldsQueuedTasks ==
  [][\A p \in Providers :
       /\ (queues[p] # NoQueue /\ queues[p].isPaused /\ queues'[p].isPaused) =>
            \A t \in Tasks :
              (qTaskProvider'[t] = p /\ qTask'[t] = "running") => qTask[t] = "running"
       /\ (queues[p] # NoQueue /\ ~queues[p].isPaused /\ queues'[p].isPaused) =>
            qTask' = qTask
       /\ \A t \in Tasks :
            (qTaskProvider[t] = p /\ qTask[t] = "running") => qTask'[t] \in {"running", "done"}]_vars

\* a paused queue holds a task back although a task that was executing when
\* it was paused has completed and freed its slot
C17_Witness ==
  \E p \in Providers :
    /\ queues[p] # NoQueue
    /\ queues[p].isPaused
    /\ Len(queues[p].waiting) > 0
    /\ queues[p].pending < queues[p].concurrency
    /\ \E t \in Tasks : qTaskProvider[t] = p /\ qTask[t] = "done"
    /\ \E t \in Tasks : qTaskProvider[t] = p /\ qTask[t] = "running"

(***************************************************************************)
(* Budget properties                                                       *)
(***************************************************************************)
\* C2: under any interleaving of tasks that call canAfford and, when
\* approved, later record their cost, the recorded spend of a budget scope
\* never exceeds that scope's ceiling.
C2_SpendWithinCeilings ==
  LET status == BM_getStatus(costRecords, bmStart, now) IN
  /\ IsSet(bmLimits.dailyLimit) => status.daily <= bmLimits.dailyLimit
  /\ IsSet(bmLimits.weeklyLimit) => status.weekly <= bmLimits.weeklyLimit
  /\ IsSet(bmLimits.monthlyLimit) => status.monthly <= bmLimits.monthlyLimit
  /\ \A p \in Providers :
       IsSet(bmLimits.providerLimits[p]) => status.byProvider[p] <= bmLimits.providerLimits[p]

RecordsOf(i) ==
  {k \in 1..Len(ledger.logFile) : ledger.logFile[k].id = BatchItems[i].id}

\* the batch ran to its end and every submitted task settled
BatchTerminal ==
  /\ bMain \in {"exit0", "exit1"}
  /\ \A i \in Items : bPc[i] \in {"done", "rejected"}

\* C1: once the batch has reached its terminal state with every submitted
\* task settled, the log holds exactly one outcome record for each item id,
\* whatever the mix of successes, failures and failing session writes.
C1_OneRecordPerItem ==
  BatchTerminal => \A i \in Items : Cardinality(RecordsOf(i)) = 1

\* the outcome records an earlier run left in the log file
PriorRecords ==
  {k \in 1..Len(ledger.logFile) : ledger.logFile[k].id[2] = PriorStamp}

\* the items whose task was handed to the queue
Submitted == {i \in Items : bPc[i] # "new"}

\* C3: a batch resumed over a log of K outcomes submits exactly total - K
\* items, and when it has finished the log holds total records with no id
\* twice.
C3_ResumeSubmitsRemainder ==
  (bOpts.resume /\ bMain = "exit0") =>
     /\ Cardinality(Submitted) = NumItems - Cardinality(PriorRecords)
     /\ Len(ledger.logFile) = NumItems
     /\ \A j, k \in 1..Len(ledger.logFile) :
          ledger.logFile[j].id = ledger.logFile[k].id => j = k

\* C8: an item whose classification failed transiently maxAttempts - 1 times
\* and then succeeded is recorded as a success whose attempts field is
\* maxAttempts.
C8_SuccessReportsAttempts ==
  \A i \in Items :
    (/\ bPc[i] = "done"
     /\ bAttempt[i] = BatchOpts.maxAttempts
     /\ ledger.results[BatchItems[i].id] = "success") =>
       /\ RecordsOf(i) # {}
       /\ \A k \in RecordsOf(i) :
            /\ ledger.logFile[k].status = "success"
            /\ ledger.logFile[k].attempts = BatchOpts.maxAttempts

\* the counts of a session add up and stay within the total
CountsAddUp(sess) ==
  /\ sess.successfulItems + sess.failedItems + sess.skippedItems = sess.completedItems
  /\ sess.completedItems <= sess.totalItems

\* C12: in every state of a batch, the session in memory and the checkpoint
\* file written have successfulItems + failedItems + skippedItems =
\* completedItems <= totalItems, also after a save operation threw part-way.
C12_SessionCountsConsistent ==
  bMain # "init" =>
    /\ CountsAddUp(ledger.session)
    /\ ledger.sessionFile # NoFile => CountsAddUp(ledger.sessionFile)

\* number of log records with the given status
StatusCount(L, status) ==
  Cardinality({k \in 1..Len(L.logFile) : L.logFile[k].status = status})

\* the checkpoint file agrees with the log
CheckpointMatchesLog(L) ==
  /\ L.sessionFile # NoFile
  /\ L.sessionFile.completedItems = Len(L.logFile)
  /\ L.sessionFile.successfulItems = StatusCount(L, "success")
  /\ L.sessionFile.failedItems = StatusCount(L, "failed")
  /\ L.sessionFile.skippedItems = StatusCount(L, "skipped")

\* C13: after every outcome append (saveSuccess, saveFailure, saveSkipped)
\* whose session write went through, called in any order relative to
\* initialize() and finalize(), the checkpoint's completedItems equals the
\* number of log records and each status counter equals the number of log
\* records with that status.
C13_CheckpointMatchesLog ==
  [][(ledger'.session.completedItems # ledger.session.completedItems /\ bWriteErrs' = bWriteErrs)
       => CheckpointMatchesLog(ledger')]_vars

\* C18: a shutdown trigger that arrives while a shutdown is in progress or
\* complete changes nothing; over any sequence of triggers every registered
\* callback is invoked at most once and in registration order, and when the
\* shutdown completes every callback registered when it began has been
\* invoked, whether or not an earlier one threw.
C18_ShutdownIdempotent ==
  /\ \A k \in 1..Len(rm.invoked) : rm.invoked[k] = k
  /\ Len(rm.invoked) <= Len(rm.shutdownCallbacks)
  /\ rm.complete => Len(rm.invoked) >= rm.callbackCount
  /\ rm.awaiting > 0 => rm.awaiting = Len(rm.invoked)

C18_Witness ==
  /\ rm.complete
  /\ rmSignals = MaxSignals
  /\ Len(rm.invoked) = MaxCallbacks
  /\ rm.shutdownCallbacks[1] = "rejects"

\* the tasks the queue has started and that have not settled
InFlight == {i \in Items : bPc[i] \in {"attempt", "classify", "sleep"}}

\* the batch's shutdown callback has been called
BatchCancelled == rm.isShuttingDown /\ rm.callbackCount > 0

C15_ShutdownReachesFinalize ==
  (bMain = "awaiting" /\ BatchCancelled /\ rm.awaiting > 0 /\ InFlight = {})
    => CC_allIdle(queues)

\* C16: after the batch was cancelled by a shutdown no classification
\* attempt is started and no backoff sleep leads to a further attempt.
C16_CancelStopsAttempts ==
  [][BatchCancelled =>
       \A i \in Items :
         /\ bPc'[i] = "classify" => bPc[i] = "classify"
         /\ ~(bPc[i] = "sleep" /\ bPc'[i] = "attempt")]_vars

\* C19: every classification call dispatched for an item is preceded by a
\* canAfford check for that item that returned true, and an item whose
\* check was denied is recorded as skipped and never dispatched.
C19_BudgetCheckedBeforeDispatch ==
  \A i \in Items :
    /\ bPc[i] = "classify" => bBudgetChecks[i] = "approved"
    /\ bBudgetChecks[i] = "denied" =>
         bAttempt[i] = 0 /\ ledger.results[BatchItems[i].id] \in {"absent", "skipped"}

\* C20: a failing classification (transient after its retries, terminal, or
\* refused by the open breaker) never aborts the batch: the batch ends in
\* the outer catch only after a failed session write, a failed item that is
\* done has a failed record, no queued item is left behind while the queue
\* is running, and at the regular end every item is done.
C20_ItemFailureNeverAborts ==
  /\ bMain = "exit1" => bWriteErrs > 0
  /\ \A i \in Items :
       (bPc[i] = "done" /\ bOutcome[i] = "error") =>
          /\ RecordsOf(i) # {}
          /\ \A k \in RecordsOf(i) : ledger.logFile[k].status = "failed"
  /\ \A i \in Items : bPc[i] = "rejected" => bWriteErrs > 0
  /\ (bMain = "awaiting" /\ ~queues[BatchProvider].isPaused
        /\ (\E i \in Items : bPc[i] = "queued")) => InFlight # {}
  /\ bMain = "exit0" => \A i \in Items : bPc[i] = "done"

\* item 1 failed and is recorded as failed, item 2 was classified, and the
\* batch reached its regular end
C20_Witness ==
  /\ bMain = "exit0"
  /\ bWriteErrs = 0
  /\ bOutcome[1] = "error" /\ ledger.results[BatchItems[1].id] = "failed"
  /\ bAttempt[1] = BatchOpts.maxAttempts
  /\ bOutcome[2] = "value" /\ ledger.results[BatchItems[2].id] = "success"

\* C21: an outcome whose record cannot be appended to the log is not counted:
\* whenever a save advances the session counters, the log has grown by the
\* record of that outcome.
C21_CountedOnlyWhenLogged ==
  [][ledger'.session.completedItems > ledger.session.completedItems
       => Len(ledger'.logFile) = Len(ledger.logFile) + 1]_vars

\* C25: while a breaker is open, calls admitted before the trip that settle
\* leave it as the trip set it: failures, successes and nextRetryTime do not
\* change as long as it stays open.
C25_OpenStateFrozen ==
  [][\A p \in Providers :
       (breakers[p].state = "open" /\ breakers'[p].state = "open")
         => breakers'[p] = breakers[p]]_vars

\* C28: once a graceful shutdown has started the process does not exit
\* before every registered shutdown callback has finished, whatever further
\* trigger arrives in the meantime.
C28_NoExitDuringShutdown ==
  (rm.exited /\ rm.isShuttingDown) => (rm.complete /\ rm.awaiting = 0)

\* C23: breakers are isolated per backend: a step that creates, changes or
\* consults provider p's breaker leaves every other provider's breaker and
\* call counters as they were, and a call for p is rejected exactly when p's
\* own breaker is open with its retry time not yet reached.
C23_BreakersIsolated ==
  [][\A p \in Providers :
       LET touched  == \/ breakers'[p] # breakers[p]
                       \/ cbInflight'[p] # cbInflight[p]
                       \/ cbFnCalls'[p] # cbFnCalls[p]
                       \/ cbRejected'[p] # cbRejected[p]
           executed == cbFnCalls'[p] + cbRejected'[p] > cbFnCalls[p] + cbRejected[p]
           ownOpen  == /\ breakers[p] # NoBreaker
                       /\ breakers[p].state = "open"
                       /\ now < breakers[p].nextRetryTime
       IN /\ touched => \A q \in Providers \ {p} :
                           /\ breakers'[q] = breakers[q]
                           /\ cbInflight'[q] = cbInflight[q]
                           /\ cbFnCalls'[q] = cbFnCalls[q]
                           /\ cbRejected'[q] = cbRejected[q]
          /\ executed => (cbRejected'[p] > cbRejected[p] <=> ownOpen)]_vars

\* gemini's breaker is open and has rejected a call while claude's breaker,
\* created and used meanwhile, is closed and has admitted a call
C23_Witness ==
  /\ breakers["gemini"] # NoBreaker /\ breakers["gemini"].state = "open"
  /\ cbRejected["gemini"] > 0
  /\ breakers["claude"] # NoBreaker /\ breakers["claude"].state = "closed"
  /\ cbFnCalls["claude"] > 0 /\ cbRejected["claude"] = 0

\* an attempt of item i meets the open breaker before its retry time
MeetsOpenBreaker(i) ==
  /\ plPc[i] = "attempt" /\ plPc'[i] # "attempt"
  /\ breakers[BatchProvider] # NoBreaker
  /\ breakers[BatchProvider].state = "open"
  /\ now < breakers[BatchProvider].nextRetryTime

\* C24: when an item's attempt meets the open breaker (retry time not
\* reached), the item ends with that attempt: classify is not called, no
\* backoff sleep starts, the attempt number does not advance, and the breaker
\* is left as it was; an ended item never runs again.
C24_OpenBreakerEndsItem ==
  [][\A i \in PipeItems :
       /\ MeetsOpenBreaker(i) =>
            /\ plPc'[i] = "failed"
            /\ plCalls'[i] = plCalls[i]
            /\ plSleeps'[i] = plSleeps[i]
            /\ plAttempt'[i] = plAttempt[i]
            /\ breakers' = breakers
       /\ plPc[i] = "failed" =>
            /\ plPc'[i] = "failed"
            /\ plCalls'[i] = plCalls[i]
            /\ plSleeps'[i] = plSleeps[i]
            /\ plAttempt'[i] = plAttempt[i]]_vars

\* an item started while the breaker was open was rejected on its first
\* attempt: it failed without a classify call or a sleep, breaker still open
C24_Witness ==
  /\ \E i \in PipeItems :
       plPc[i] = "failed" /\ plAttempt[i] = 1 /\ plCalls[i] = 0 /\ plSleeps[i] = 0
  /\ breakers[BatchProvider] # NoBreaker
  /\ breakers[BatchProvider].state = "open"

\* the spent figures over the windows that contain time t: the day, the week
\* (from Sunday 00:00) and the month of t
WindowStatus(rs, t) ==
  BM_getStatus(rs, [startOfDay |-> StartOfDay(t),
                    startOfWeek |-> StartOfDay(t) - GetDay(t) * DayMs,
                    startOfMonth |-> StartOfMonth(t)], t)

\* C22: canAfford stays false while the spend of the current window makes
\* the ceiling unaffordable, and spend of a window that has rolled over no
\* longer counts: a request is denied only if the spend recorded in the
\* current day, week and month (or for its provider) leaves no room for it.
C22_DeniedOnlyByCurrentWindow ==
  [][\A t \in Spenders :
       (spPc[t] = "idle" /\ spPc'[t] = "denied") =>
         BM_denyLevel(bmLimits, WindowStatus(costRecords, now),
                      spReq'[t].provider, spReq'[t].cost) # "none"]_vars

\* C30: every record counted in the daily spend is counted in the weekly and
\* the monthly spend, so a reported status has daily <= weekly and
\* daily <= monthly.
C30_DailyWithinWeeklyAndMonthly ==
  bmStatus # NoStatus =>
    (bmStatus.daily <= bmStatus.weekly /\ bmStatus.daily <= bmStatus.monthly)

\* C26: the token count of a RateLimiter stays within 0..requestsPerMinute,
\* and over the interval from its construction (time 0) to now at most
\* R + R * t / 60000 acquire() calls have completed.
C26_TokensAndRateBounded ==
  /\ limiter.tokens >= 0
  /\ limiter.tokens <= limiter.requestsPerMinute * MinuteMs
  /\ acqDone * MinuteMs <= limiter.requestsPerMinute * MinuteMs + limiter.requestsPerMinute * now

\* C27: once delete(key) has completed and set(key) has not been called
\* since, every get(key) called from then on returns null, however the
\* delete interleaved with gets that promote a Redis hit into the memory
\* cache.
C27_DeletedKeyStaysAbsent ==
  \A c \in CacheCallers :
    (ccAfterDelete[c] /\ ccPc[c] = "idle") => ccResult[c] = Null

\* C29: after disconnect() the client creates no connection until the
\* application calls connect() again, even with a reconnect timer pending;
\* and between two `open` events at most maxReconnectAttempts automatic
\* reconnects are attempted.
C29_NoConnectionAfterDisconnect ==
  [][/\ (wsQuiet /\ wsQuiet') => Len(sockets') = Len(sockets)
     /\ wsAuto' <= MaxReconnectAttempts]_vars

====
